---------------------------- MODULE Spec2Model ----------------------------
(***************************************************************************)
(* A model of htmap's map controller (src/htmap/maps.py) and of the        *)
(* component runner's contract with it (src/htmap/run/run.py).             *)
(*                                                                         *)
(* One Map instance is modelled together with its durable directory, the   *)
(* process-wide registry MAPS, the scheduler queue and a wall clock.       *)
(* Hashes are small integers; a result artifact records which submission   *)
(* (cluster) produced it, so that a rewritten artifact differs from the    *)
(* one it supersedes.                                                      *)
(***************************************************************************)
EXTENDS Integers, Sequences, FiniteSets, TLC

VARIABLES
    cluster_ids,    \* self.cluster_ids: the batch ids of the map, in order
    is_removed,     \* self._is_removed
    MAPS,           \* the registry: the map ids that have an instance
    dir_exists,     \* whether the durable map directory exists
    outputs,        \* the outputs directory: file name -> content or NoFile
    live,           \* component executions that may still write an artifact
    last_itemdata,  \* the item data of the latest execute_submit, as hashes
    ret,            \* what the latest controller call returned or raised
    now,            \* time.time(), in seconds
    call,           \* the frame of a blocking wait() or get() call
    gen,            \* the frame of an iter()/iter_as_available() generator
    yielded,        \* the callback calls and the yields of the generator, in order
    trace,          \* the calls the latest controller operation issued, in order
    objs,           \* the Map instances of the process, in order of construction
    registry,       \* MAPS as a mapping: map id -> instance (0: no entry)
    dirs,           \* the map directories: map id -> directory or NoDir
    run             \* one component runner process: the frame of run.py main

vars == <<cluster_ids, is_removed, MAPS, dir_exists, outputs, live,
          last_itemdata, ret, now, call, gen, yielded, trace, objs, registry,
          dirs, run>>

storeVars == <<cluster_ids, is_removed, MAPS, dir_exists, outputs, live,
               last_itemdata>>

\* The variables of the specifications with several maps in one process.
lifeVars == <<objs, registry, dirs>>

---------------------------------------------------------------------------
(* Bounds of the model. *)

NumHashes == 2      \* number of inputs of the map
MaxClusters == 2    \* submissions the scheduler accepts (the first + reruns)
MaxRecords == 2     \* records in one scheduler answer
MaxTime == 3        \* the clock stops advancing here
MaxTimeout == 1     \* largest timeout argument tried
MaxSurvivors == 1   \* executions that outlive one scheduler remove action
MaxObjects == 3     \* Map instances constructed in one process
MaxAmount == 2      \* largest number given to set_memory and set_disk

---------------------------------------------------------------------------
(* Values. *)

None == "None"
\* The content of a file name that is not in the directory.
NoFile == [status |-> "NoFile", cluster |-> 0]

IDLE == 1
RUNNING == 2
REMOVED == 3
COMPLETED == 4
HELD == 5
TRANSFERRING_OUTPUT == 6
SUSPENDED == 7

Status == {IDLE, RUNNING, REMOVED, COMPLETED, HELD, TRANSFERRING_OUTPUT, SUSPENDED}

map_id == "m"

\* The hashes handed to Map.__init__, one per input, in input order.  The
\* order is a rotation, so that input order is not the order of the values.
hashes == [i \in 1..NumHashes |-> (i % NumHashes) + 1]

hash_set == {hashes[i] : i \in 1..NumHashes}

Range(s) == {s[i] : i \in 1..Len(s)}

\* A file of the outputs directory: Path.stem and Path.suffix.
Suffixes == {"out"}

FileNames == [stem : hash_set, suffix : Suffixes]

\* self._outputs_dir / f'{h}.out'
OutPath(h) == [stem |-> h, suffix |-> "out"]

\* The names a file of the outputs directory can have when other programs
\* write there too: '<h>.out', and '<h>.tmp' with the same stem.
DirNames == [stem : hash_set, suffix : Suffixes \cup {"tmp"}]

\* A serialized ComponentResult: OK or ERR, written by one submission.
Contents == [status : {"OK", "ERR"}, cluster : 1..MaxClusters]

\* Path.exists()
Exists(path) == dir_exists /\ outputs[path] # NoFile

Returned(op, v) == [op |-> op, exc |-> None, val |-> v]

Raised(op, e) == [op |-> op, exc |-> e, val |-> None]

NoCall == [op |-> None, exc |-> None, val |-> None]

idle == [pc |-> "idle"]

\* A timeout argument: None, or a number of seconds.
TimeoutNone == [given |-> FALSE, secs |-> 0]

Seconds(t) == [given |-> TRUE, secs |-> t]

Timeouts == {TimeoutNone} \cup {Seconds(t) : t \in (-1)..MaxTimeout}

\* The calls a controller operation issues, as the entries of trace.
\* schedd.act(action, req), req matching the clusters of scope
act(action, scope) == [ev |-> "act", action |-> action, scope |-> scope]

\* schedd.edit(req, attr, value)
edit(scope, attr, value) ==
    [ev |-> "edit", scope |-> scope, attr |-> attr, value |-> value]

\* schedd.xquery(requirements = req, projection = projection)
xquery(scope, requirements, projection) ==
    [ev |-> "xquery", scope |-> scope, requirements |-> requirements,
     projection |-> projection]

\* mapping.execute_submit(submit_obj, new_itemdata)
execute_submit(itemdata) == [ev |-> "execute_submit", itemdata |-> itemdata]

\* shutil.rmtree(map_dir)
rmtree(id) == [ev |-> "rmtree", map_id |-> id]

\* self._is_removed = True, in the instance of map id
set_is_removed(id) == [ev |-> "_is_removed = True", map_id |-> id]

\* MAPS[map_id] = self, in Map.__init__
register(id) == [ev |-> "MAPS[map_id] = self", map_id |-> id]

\* Reading cluster_ids, hashes and submit from the directory of a map id.
load(id) == [ev |-> "load", map_id |-> id]

\* mapping.raise_if_map_id_already_exists(map_id)
check_exists(id) == [ev |-> "raise_if_map_id_already_exists", map_id |-> id]

\* shutil.copytree(src, dst)
copytree(src, dst) == [ev |-> "copytree", src |-> src, dst |-> dst]

\* htio.save_submit(new_map_dir, submit)
save_submit(id) == [ev |-> "save_submit", map_id |-> id]

\* MAPS.pop(map_id)
pop(id) == [ev |-> "MAPS.pop", map_id |-> id]

\* The map ids of the model: map_id, and one more.
Ids == {map_id, "n"}

\* The directory of a map id that has none.
NoDir == [status |-> "NoDir"]


---------------------------------------------------------------------------
(* The guard applied to the class by _protect_map_after_remove. *)

\* The members of class Map that do not start with an underscore, with what
\* inspect sees them as.
PublicMembers ==
    { [name |-> n, kind |-> "function"] :
        n \in {"wait", "get", "iter", "iter_with_inputs", "iter_as_available",
               "iter_as_available_with_inputs", "status_counts", "status",
               "hold_reasons", "remove", "hold", "release", "pause", "resume",
               "vacate", "set_memory", "set_disk", "output", "error", "tail",
               "rerun", "rerun_incomplete", "rename"} }
    \cup { [name |-> n, kind |-> "property"] : n \in {"is_done", "is_running"} }
    \cup { [name |-> "recover", kind |-> "classmethod"] }

\* inspect.getmembers(result_class, predicate = inspect.isfunction), minus the
\* names that start with an underscore: the members that get wrapped.
_protect_map_after_remove ==
    {m.name : m \in {x \in PublicMembers : x.kind = "function"}}

\* _protect: the wrapped method raises before the method body runs.
_protector(name, method) ==
    IF name \in _protect_map_after_remove /\ is_removed
    THEN /\ ret' = Raised(name, "MapWasRemoved")
         /\ UNCHANGED <<storeVars, trace>>
    ELSE method

---------------------------------------------------------------------------
(* The Output Store. *)

\* Mutant of done: only the artifacts that hold an Ok result count.
done_ok(dir) == {f.stem : f \in {g \in FileNames : dir[g].status = "OK"}}

\* set(f.stem for f in self._outputs_dir.iterdir()), for a directory content
done(dir) == {f.stem : f \in {g \in DOMAIN dir : dir[g] # NoFile}}

\* Mutant of missing_in: the scan starts at the second input.
missing_in_skip_first(dir) ==
    SelectSeq(Tail(hashes), LAMBDA h : h \notin done(dir))

\* [h for h in self.hashes if h not in done]
missing_in(dir) == SelectSeq(hashes, LAMBDA h : h \notin done(dir))

\* [h for h in self.hashes if h in done]
completed_in(dir) == SelectSeq(hashes, LAMBDA h : h \in done(dir))

\* Map._missing_hashes
_missing_hashes == missing_in(outputs)

\* Map._completed_hashes
_completed_hashes == completed_in(outputs)

\* utils.clean_dir(self._outputs_dir): every file of the directory is deleted.
_clean_outputs_dir == [f \in FileNames |-> NoFile]

---------------------------------------------------------------------------
(* The scheduler, as the controller and the runners see it. *)

\* The executions a query or an action with Map._requirements() matches:
\* ClusterId == cid for some cid of self.cluster_ids.
_requirements == {j \in live : j.cluster \in Range(cluster_ids)}

\* schedd.act(JobAction.Remove, req) is fire-and-forget: the matched
\* executions are stopped, except that up to MaxSurvivors of them are already
\* far enough to still write their artifact.  The possible queues afterwards.
_remove_from_queue ==
    {(live \ _requirements) \cup survivors :
        survivors \in {x \in SUBSET _requirements : Cardinality(x) <= MaxSurvivors}}

\* The cluster id the scheduler gives to the next submission.
NextClusterId == Len(cluster_ids) + 1

\* The component runner (run.py main) ends by writing <hash>.out, which the
\* scheduler transfers into the outputs directory of the map.
RunnerWrite ==
    \E j \in live, s \in {"OK", "ERR"} :
        /\ dir_exists
        /\ outputs' = [outputs EXCEPT ![OutPath(j.hash)] =
                          [status |-> s, cluster |-> j.cluster]]
        /\ live' = live \ {j}
        /\ UNCHANGED <<cluster_ids, is_removed, MAPS, dir_exists,
                       last_itemdata, ret, now, call, gen, yielded, trace,
                       lifeVars, run>>

\* The worker dies before save_output: no artifact is written.
RunnerCrash ==
    \E j \in live :
        /\ live' = live \ {j}
        /\ UNCHANGED <<cluster_ids, is_removed, MAPS, dir_exists, outputs,
                       last_itemdata, ret, now, call, gen, yielded, trace,
                       lifeVars, run>>

---------------------------------------------------------------------------
(* The state after mapping.map() built the map and submitted it once. *)

Init ==
    /\ cluster_ids = <<1>>
    /\ is_removed = FALSE
    /\ MAPS = {map_id}
    /\ dir_exists = TRUE
    /\ outputs = [f \in FileNames |-> NoFile]
    /\ live = {[cluster |-> 1, hash |-> h] : h \in hash_set}
    /\ last_itemdata = hashes
    /\ ret = NoCall
    /\ now = 0
    /\ call = idle
    /\ gen = idle
    /\ yielded = <<>>
    /\ run = idle
    /\ trace = <<>>
    /\ objs = <<>>
    /\ registry = [id \in Ids |-> 0]
    /\ dirs = [id \in Ids |-> NoDir]

\* The controller is single-threaded: no call starts while wait() or get(),
\* or a step of a generator, is blocked in its poll loop.
ControllerFree == call.pc = "idle" /\ gen.pc \in {"idle", "suspended", "ended"}

---------------------------------------------------------------------------
(* The controller: completion, rerun, remove. *)

\* Map.is_done: a property, len(self._missing_hashes) == 0.  iterdir() of a
\* directory that is gone raises FileNotFoundError.
is_done_body ==
    /\ ret' = IF dir_exists
              THEN Returned("is_done", Len(_missing_hashes) = 0)
              ELSE Raised("is_done", "FileNotFoundError")
    /\ UNCHANGED storeVars

is_done ==
    /\ ControllerFree
    /\ _protector("is_done", is_done_body)
    /\ UNCHANGED <<now, call, gen, yielded, trace, lifeVars, run>>

\* Mutant of _rerun: the new cluster id replaces the list instead of being
\* appended to it.
_rerun_replace(op, target) ==
    /\ Len(cluster_ids) < MaxClusters
    /\ \E submitted \in BOOLEAN, after \in _remove_from_queue :
        /\ last_itemdata' = target
        /\ IF submitted
           THEN /\ live' = after \cup {[cluster |-> NextClusterId, hash |-> h] :
                                         h \in Range(target)}
                /\ cluster_ids' = <<NextClusterId>>
                /\ ret' = Returned(op, None)
           ELSE /\ live' = after
                /\ cluster_ids' = cluster_ids
                /\ ret' = Raised(op, "SubmitError")
    /\ trace' = <<act("Remove", Range(cluster_ids)), execute_submit(target)>>
    /\ UNCHANGED <<is_removed, MAPS, dir_exists>>

\* Mutant of _rerun: the new batch is submitted before the old ones are
\* removed from the queue.
_rerun_submit_first(op, target) ==
    /\ Len(cluster_ids) < MaxClusters
    /\ \E submitted \in BOOLEAN, after \in _remove_from_queue :
        /\ last_itemdata' = target
        /\ IF submitted
           THEN /\ live' = after \cup {[cluster |-> NextClusterId, hash |-> h] :
                                         h \in Range(target)}
                /\ cluster_ids' = Append(cluster_ids, NextClusterId)
                /\ ret' = Returned(op, None)
           ELSE /\ live' = after
                /\ cluster_ids' = cluster_ids
                /\ ret' = Raised(op, "SubmitError")
    /\ trace' = <<execute_submit(target), act("Remove", Range(cluster_ids))>>
    /\ UNCHANGED <<is_removed, MAPS, dir_exists>>

\* Map._rerun(hashes): remove from the queue, filter the item data to hashes,
\* submit with the stored template, append the new cluster id.  The scheduler
\* may refuse the submission.
_rerun(op, target) ==
    /\ Len(cluster_ids) < MaxClusters
    /\ \E submitted \in BOOLEAN, after \in _remove_from_queue :
        /\ last_itemdata' = target
        /\ IF submitted
           THEN /\ live' = after \cup {[cluster |-> NextClusterId, hash |-> h] :
                                         h \in Range(target)}
                /\ cluster_ids' = Append(cluster_ids, NextClusterId)
                /\ ret' = Returned(op, None)
           ELSE /\ live' = after
                /\ cluster_ids' = cluster_ids
                /\ ret' = Raised(op, "SubmitError")
    /\ trace' = <<act("Remove", Range(cluster_ids)), execute_submit(target)>>
    /\ UNCHANGED <<is_removed, MAPS, dir_exists>>

\* Mutant of rerun_incomplete_body: every input is resubmitted.
rerun_incomplete_all ==
    /\ dir_exists
    /\ _rerun("rerun_incomplete", hashes)
    /\ outputs' = outputs

\* Map.rerun_incomplete: self._rerun(hashes = self._missing_hashes)
rerun_incomplete_body ==
    /\ dir_exists
    /\ _rerun("rerun_incomplete", _missing_hashes)
    /\ outputs' = outputs

rerun_incomplete ==
    /\ ControllerFree
    /\ _protector("rerun_incomplete", rerun_incomplete_body)
    /\ UNCHANGED <<now, call, gen, yielded, lifeVars, run>>

\* Mutant of rerun_body: the outputs directory is not cleaned first.
rerun_no_clean ==
    /\ dir_exists
    /\ outputs' = outputs
    /\ _rerun("rerun", missing_in(outputs))

\* Map.rerun: self._clean_outputs_dir(), then self.rerun_incomplete(), which
\* reads the missing hashes from the cleaned directory.
rerun_body ==
    /\ dir_exists
    /\ outputs' = _clean_outputs_dir
    /\ _rerun("rerun", missing_in(_clean_outputs_dir))

rerun ==
    /\ ControllerFree
    /\ _protector("rerun", rerun_body)
    /\ UNCHANGED <<now, call, gen, yielded, lifeVars, run>>

\* Map.remove: remove from the queue, delete the map directory, set
\* _is_removed, pop the map id from the registry.
remove_body ==
    /\ \E after \in _remove_from_queue :
        live' = after
    /\ dir_exists' = FALSE
    /\ outputs' = [f \in FileNames |-> NoFile]
    /\ is_removed' = TRUE
    /\ MAPS' = MAPS \ {map_id}
    /\ ret' = Returned("remove", None)
    /\ trace' = <<act("Remove", Range(cluster_ids)), rmtree(map_id),
                  set_is_removed(map_id), pop(map_id)>>
    /\ UNCHANGED <<cluster_ids, last_itemdata>>

remove ==
    /\ ControllerFree
    /\ _protector("remove", remove_body)
    /\ UNCHANGED <<now, call, gen, yielded, lifeVars, run>>

---------------------------------------------------------------------------
(* Status: the scheduler's answer, overridden by the Output Store. *)

\* What self._query(projection = ['JobStatus']) may yield: the JobStatus of
\* each record of the scheduler's answer.
Answers == UNION {[1..n -> Status] : n \in 0..MaxRecords}

\* Map._query, consumed by its caller: the scheduler answers with records.
\* The test `self.cluster_ids is None` does not end the generator, and an
\* empty list passes it: the requirements are then "()", which is no
\* expression, and the scheduler may answer or refuse.
_query(answers) ==
    {[exc |-> None, answer |-> a] : a \in answers}
    \cup (IF cluster_ids = <<>>
          THEN {[exc |-> "RuntimeError", answer |-> <<>>]}
          ELSE {})

\* collections.Counter(Status(classad['JobStatus']) for classad in query)
Counter(answer) ==
    [s \in Status |-> Cardinality({i \in 1..Len(answer) : answer[i] = s})]

\* Mutant of status_counts_of: the completed count is left as tallied.
status_counts_no_override(answer) == Counter(answer)

\* Map.status_counts, for one answer of the scheduler.
status_counts_of(answer) ==
    [Counter(answer) EXCEPT ![COMPLETED] = Len(_completed_hashes)]

status_counts_body ==
    /\ dir_exists
    /\ \E q \in _query(Answers) :
        ret' = [op |-> "status_counts", exc |-> q.exc,
                val |-> IF q.exc = None THEN status_counts_of(q.answer)
                        ELSE None,
                query |-> q.answer]
    /\ trace' = <<xquery(Range(cluster_ids), None, <<"JobStatus">>)>>
    /\ UNCHANGED storeVars

status_counts ==
    /\ ControllerFree
    /\ _protector("status_counts", status_counts_body)
    /\ UNCHANGED <<now, call, gen, yielded, lifeVars, run>>

\* Map.is_running: a property; it calls self.status_counts(), the wrapped
\* method, and is true if a status other than COMPLETED has a nonzero count.
is_running_body ==
    /\ IF "status_counts" \in _protect_map_after_remove /\ is_removed
       THEN /\ ret' = Raised("is_running", "MapWasRemoved")
            /\ trace' = trace
       ELSE /\ dir_exists
            /\ \E q \in _query(Answers) :
                ret' = IF q.exc # None THEN Raised("is_running", q.exc)
                       ELSE Returned("is_running",
                                \E k \in Status \ {COMPLETED} :
                                    status_counts_of(q.answer)[k] # 0)
            /\ trace' = <<xquery(Range(cluster_ids), None, <<"JobStatus">>)>>
    /\ UNCHANGED storeVars

is_running ==
    /\ ControllerFree
    /\ _protector("is_running", is_running_body)
    /\ UNCHANGED <<now, call, gen, yielded, lifeVars, run>>

\* Map.hold_reasons: the query, restricted to held components, with the
\* projection of the table; utils.table lays the records out as text.
hold_reasons_body ==
    /\ \E q \in _query({a \in Answers : \A i \in 1..Len(a) : a[i] = HELD}) :
        ret' = [op |-> "hold_reasons", exc |-> q.exc,
                val |-> IF q.exc = None THEN Len(q.answer) ELSE 0,
                query |-> q.answer]
    /\ trace' = <<xquery(Range(cluster_ids), "JobStatus==5",
                         <<"ProcId", "HoldReason", "HoldReasonCode">>)>>
    /\ UNCHANGED storeVars

hold_reasons ==
    /\ ControllerFree
    /\ _protector("hold_reasons", hold_reasons_body)
    /\ UNCHANGED <<now, call, gen, yielded, lifeVars, run>>

---------------------------------------------------------------------------
(* The controller and the Output Store, with runners writing artifacts. *)

Next ==
    \/ RunnerWrite
    \/ RunnerCrash
    \/ is_done
    \/ rerun
    \/ rerun_incomplete
    \/ remove

Spec == Init /\ [][Next]_vars

(* Status queries against a changing Output Store. *)

\* Any content of the outputs directory that runners of the first
\* submission can have produced.
InitStatus ==
    /\ cluster_ids = <<1>>
    /\ is_removed = FALSE
    /\ MAPS = {map_id}
    /\ dir_exists = TRUE
    /\ outputs \in [FileNames -> {NoFile} \cup [status : {"OK", "ERR"}, cluster : {1}]]
    /\ live = {[cluster |-> 1, hash |-> h] :
                  h \in {x \in hash_set : outputs[OutPath(x)] = NoFile}}
    /\ last_itemdata = hashes
    /\ ret = NoCall
    /\ now = 0
    /\ call = idle
    /\ gen = idle
    /\ yielded = <<>>
    /\ run = idle
    /\ trace = <<>>
    /\ objs = <<>>
    /\ registry = [id \in Ids |-> 0]
    /\ dirs = [id \in Ids |-> NoDir]

NextStatus == status_counts

SpecStatus == InitStatus /\ [][NextStatus]_vars

\* Queries of a map that has one batch id, or none: the cluster_ids file
\* that recover() read was empty.
InitQuery ==
    /\ cluster_ids \in {<<>>, <<1>>}
    /\ is_removed = FALSE
    /\ MAPS = {map_id}
    /\ dir_exists = TRUE
    /\ outputs \in [FileNames -> {NoFile, [status |-> "OK", cluster |-> 1]}]
    /\ cluster_ids = <<>> => \A f \in FileNames : outputs[f] = NoFile
    /\ live = {[cluster |-> 1, hash |-> h] :
                  h \in {x \in hash_set : cluster_ids # <<>>
                                            /\ outputs[OutPath(x)] = NoFile}}
    /\ last_itemdata = hashes
    /\ ret = NoCall
    /\ now = 0
    /\ call = idle
    /\ gen = idle
    /\ yielded = <<>>
    /\ run = idle
    /\ trace = <<>>
    /\ objs = <<>>
    /\ registry = [id \in Ids |-> 0]
    /\ dirs = [id \in Ids |-> NoDir]

NextQuery ==
    \/ status_counts
    \/ hold_reasons
    \/ remove

SpecQuery == InitQuery /\ [][NextQuery]_vars

---------------------------------------------------------------------------
(* Blocking retrieval: get() and wait(), polling while runners write. *)

\* The clock advances, whatever the controller does.
Tick ==
    /\ now < MaxTime
    /\ now' = now + 1
    /\ UNCHANGED <<storeVars, ret, call, gen, yielded, trace, lifeVars, run>>

\* utils.wait_for_path_to_exist(path, timeout), one turn of its loop: the
\* path exists, or the call times out (at once when timeout <= 0), or it
\* sleeps one second and looks again.
wait_for_path_to_exist(path, timeout, start) ==
    IF Exists(path) THEN "exists"
    ELSE IF timeout.given /\ (timeout.secs <= 0 \/ now > start + timeout.secs)
         THEN "timeout"
         ELSE "sleep"

\* time.sleep(1) returns once a second has passed.
SleepDone ==
    /\ call.pc = "sleeping"
    /\ now >= call.wake
    /\ call' = [call EXCEPT !.pc = "check"]
    /\ UNCHANGED <<storeVars, ret, now, gen, yielded, trace, lifeVars, run>>

\* The frame of a call that has just started.
Frame(op, via, item, timeout) ==
    [pc |-> "check", op |-> op, via |-> via, item |-> item,
     timeout |-> timeout, start |-> now, wake |-> now, slept |-> FALSE]

\* What a finished call leaves: its outcome and the arguments it had.
Outcome(frame, exc, val) ==
    [op |-> frame.op, exc |-> exc, val |-> val, via |-> frame.via,
     item |-> frame.item, timeout |-> frame.timeout, start |-> frame.start,
     slept |-> frame.slept]

\* Mutant of get_error: the TimeoutError is passed on as it is.
get_error_reraise(timeout) == "TimeoutError"

\* Map.get, its except clause: a TimeoutError of a call with timeout <= 0
\* becomes OutputNotFound.
get_error(timeout) ==
    IF timeout.secs <= 0 THEN "OutputNotFound" ELSE "TimeoutError"

\* Map.get(item, timeout) is called.
get_start(via, item, timeout) ==
    /\ call' = Frame("get", via, item, timeout)
    /\ ret' = NoCall
    /\ UNCHANGED storeVars

get_call ==
    /\ ControllerFree
    /\ \E item \in 1..NumHashes, timeout \in Timeouts :
           _protector("get", get_start("get", item, timeout))
    /\ UNCHANGED <<now, gen, yielded, trace, lifeVars, run>>

\* Map.__getitem__(item): return self.get(item, timeout = 0)
getitem_call ==
    /\ ControllerFree
    /\ \E item \in 1..NumHashes :
           _protector("get", get_start("__getitem__", item, Seconds(0)))
    /\ UNCHANGED <<now, gen, yielded, trace, lifeVars, run>>

\* Map.get: one turn of the wait for the output path, then htio.load_object.
get_check ==
    /\ call.pc = "check"
    /\ call.op = "get"
    /\ LET path == OutPath(hashes[call.item])
           turn == wait_for_path_to_exist(path, call.timeout, call.start)
       IN  CASE turn = "exists" ->
                    /\ ret' = Outcome(call, None, outputs[path])
                    /\ call' = idle
             [] turn = "timeout" ->
                    /\ ret' = Outcome(call, get_error(call.timeout), None)
                    /\ call' = idle
             [] turn = "sleep" ->
                    /\ call' = [call EXCEPT !.pc = "sleeping",
                                            !.wake = now + 1, !.slept = TRUE]
                    /\ ret' = ret
    /\ UNCHANGED <<storeVars, now, gen, yielded, trace, lifeVars, run>>

\* Mutant of wait_poll: the timeout is tested before the missing hashes.
wait_poll_timeout_first(timeout, start) ==
    IF timeout.given /\ now - timeout.secs > start THEN "timeout"
    ELSE IF Len(_missing_hashes) = 0 THEN "done"
    ELSE "sleep"

\* Mutant of wait_poll: the loop does not break when nothing is missing.
wait_poll_no_break(timeout, start) ==
    IF timeout.given /\ now - timeout.secs > start THEN "timeout" ELSE "sleep"

\* Map.wait, one turn of its loop: break when nothing is missing, else raise
\* when the timeout has passed, else sleep one second.
wait_poll(timeout, start) ==
    IF Len(_missing_hashes) = 0 THEN "done"
    ELSE IF timeout.given /\ now - timeout.secs > start THEN "timeout"
    ELSE "sleep"

\* Map.wait(timeout) is called.
wait_start(timeout) ==
    /\ call' = Frame("wait", "wait", 0, timeout)
    /\ ret' = NoCall
    /\ UNCHANGED storeVars

wait_call ==
    /\ ControllerFree
    /\ \E timeout \in Timeouts : _protector("wait", wait_start(timeout))
    /\ UNCHANGED <<now, gen, yielded, trace, lifeVars, run>>

\* Map.wait: one turn of the loop; it returns the elapsed time.
wait_check ==
    /\ call.pc = "check"
    /\ call.op = "wait"
    /\ LET turn == wait_poll(call.timeout, call.start)
       IN  CASE turn = "done" ->
                    /\ ret' = Outcome(call, None, now - call.start)
                    /\ call' = idle
             [] turn = "timeout" ->
                    /\ ret' = Outcome(call, "TimeoutError", None)
                    /\ call' = idle
             [] turn = "sleep" ->
                    /\ call' = [call EXCEPT !.pc = "sleeping",
                                            !.wake = now + 1, !.slept = TRUE]
                    /\ ret' = ret
    /\ UNCHANGED <<storeVars, now, gen, yielded, trace, lifeVars, run>>

NextGet ==
    \/ RunnerWrite
    \/ RunnerCrash
    \/ Tick
    \/ SleepDone
    \/ get_call
    \/ getitem_call
    \/ get_check
    \/ wait_call
    \/ wait_check

SpecGet == Init /\ [][NextGet]_vars

\* Completion and retrieval without waiting, while runners write Ok and
\* Error results.
NextResults ==
    \/ RunnerWrite
    \/ RunnerCrash
    \/ is_done
    \/ getitem_call
    \/ get_check

SpecResults == Init /\ [][NextResults]_vars

---------------------------------------------------------------------------
(* The generators: iter(), iter_with_inputs(), iter_as_available() and      *)
(* iter_as_available_with_inputs().  A generator runs between a next() and  *)
(* its next yield; the controller is free while it is suspended.            *)

InOrder == {"iter", "iter_with_inputs"}

AsAvailable == {"iter_as_available", "iter_as_available_with_inputs"}

\* The frame of a generator that has been created and not yet started.
GenFrame(op, timeout) ==
    [pc |-> "suspended", op |-> op, timeout |-> timeout, started |-> FALSE,
     k |-> 1, start |-> now, wake |-> now, exc |-> None,
     pending |-> {}, scan |-> {}]

\* Map.iter / Map.iter_with_inputs / Map.iter_as_available /
\* Map.iter_as_available_with_inputs is called: the wrapped method makes the
\* generator; none of its body has run.
gen_start(op, timeout) ==
    /\ gen' = GenFrame(op, timeout)
    /\ yielded' = <<>>
    /\ ret' = Returned(op, None)
    /\ UNCHANGED storeVars

iter_call ==
    /\ ControllerFree
    /\ gen.pc \in {"idle", "ended"}
    /\ \E op \in InOrder, timeout \in Timeouts :
           _protector(op, gen_start(op, timeout))
    /\ UNCHANGED <<now, call, trace, lifeVars, run>>

iter_as_available_call ==
    /\ ControllerFree
    /\ gen.pc \in {"idle", "ended"}
    /\ \E op \in AsAvailable, timeout \in Timeouts :
           _protector(op, gen_start(op, timeout))
    /\ UNCHANGED <<now, call, trace, lifeVars, run>>

\* The pair a with_inputs generator loads for one path pair: the input of
\* inputs/<hash>.in and the output of outputs/<hash>.out.
Item(op, in_hash, out_hash) ==
    [out |-> out_hash,
     inp |-> IF op \in {"iter_with_inputs", "iter_as_available_with_inputs"}
             THEN in_hash ELSE 0]

\* callback(out); yield out
callback_then_yield(item) ==
    yielded' = yielded \o <<[ev |-> "callback", item |-> item],
                            [ev |-> "yield", item |-> item]>>

\* Mutant of iter_paths: the paths are taken in the order of the hash values.
iter_paths_sorted(k) == [inp |-> k, out |-> k]

\* zip(self._input_file_paths, self._output_file_paths), its k-th pair.
iter_paths(k) == [inp |-> hashes[k], out |-> hashes[k]]

\* next() on the generator: it starts, or goes on after its last yield.
gen_next ==
    /\ ControllerFree
    /\ gen.pc = "suspended"
    /\ IF gen.op \in InOrder
       THEN \* the for loop takes the next path, or is exhausted
            IF gen.k > NumHashes
            THEN gen' = [gen EXCEPT !.pc = "ended", !.started = TRUE]
            ELSE gen' = [gen EXCEPT !.pc = "check", !.started = TRUE,
                                    !.start = now]
       ELSE IF ~gen.started
            THEN \* start_time = time.time(); paths = set(...); while; copy
                 gen' = [gen EXCEPT !.pc = "scan", !.started = TRUE,
                                    !.start = now,
                                    !.pending = hash_set, !.scan = hash_set]
            ELSE gen' = [gen EXCEPT !.pc = "scan"]
    /\ UNCHANGED <<storeVars, ret, now, call, yielded, trace, lifeVars, run>>

\* Map.iter / Map.iter_with_inputs: one turn of the wait for the k-th output
\* path, then load, callback, yield.
iter_check ==
    /\ gen.pc = "check"
    /\ gen.op \in InOrder
    /\ LET paths == iter_paths(gen.k)
           turn == wait_for_path_to_exist(OutPath(paths.out), gen.timeout,
                                          gen.start)
       IN  CASE turn = "exists" ->
                    /\ callback_then_yield(Item(gen.op, paths.inp, paths.out))
                    /\ gen' = [gen EXCEPT !.pc = "suspended", !.k = gen.k + 1]
             [] turn = "timeout" ->
                    /\ gen' = [gen EXCEPT !.pc = "ended",
                                          !.exc = "TimeoutError"]
                    /\ yielded' = yielded
             [] turn = "sleep" ->
                    /\ gen' = [gen EXCEPT !.pc = "sleeping",
                                          !.wake = now + 1]
                    /\ yielded' = yielded
    /\ UNCHANGED <<storeVars, ret, now, call, trace, lifeVars, run>>

\* Mutant of paths_remove: the path stays in the pending set.
paths_keep(pending, h) == pending

\* paths.remove(path)
paths_remove(pending, h) == pending \ {h}

\* Map.iter_as_available / _with_inputs: the for loop over copy(paths) visits
\* one path, in any order; after the loop, the timeout test and the sleep.
iaa_scan ==
    /\ gen.pc = "scan"
    /\ gen.op \in AsAvailable
    /\ IF gen.scan # {}
       THEN \E h \in gen.scan :
                IF ~Exists(OutPath(h))
                THEN /\ gen' = [gen EXCEPT !.scan = gen.scan \ {h}]
                     /\ yielded' = yielded
                ELSE /\ gen' = [gen EXCEPT !.scan = gen.scan \ {h},
                                    !.pending = paths_remove(gen.pending, h),
                                    !.pc = "suspended"]
                     /\ callback_then_yield(Item(gen.op, h, h))
       ELSE /\ IF gen.timeout.given /\ now > gen.start + gen.timeout.secs
               THEN gen' = [gen EXCEPT !.pc = "ended"]
               ELSE gen' = [gen EXCEPT !.pc = "sleeping", !.wake = now + 1]
            /\ yielded' = yielded
    /\ UNCHANGED <<storeVars, ret, now, call, trace, lifeVars, run>>

\* time.sleep(1) returns in the generator: the poll loop goes round.
GenSleepDone ==
    /\ gen.pc = "sleeping"
    /\ now >= gen.wake
    /\ IF gen.op \in InOrder
       THEN gen' = [gen EXCEPT !.pc = "check"]
       ELSE \* while len(paths) > 0: for path in copy(paths)
            IF gen.pending = {}
            THEN gen' = [gen EXCEPT !.pc = "ended"]
            ELSE gen' = [gen EXCEPT !.pc = "scan", !.scan = gen.pending]
    /\ UNCHANGED <<storeVars, ret, now, call, yielded, trace, lifeVars, run>>

NextIter ==
    \/ RunnerWrite
    \/ Tick
    \/ iter_call
    \/ gen_next
    \/ iter_check
    \/ GenSleepDone

SpecIter == Init /\ [][NextIter]_vars

NextAvailable ==
    \/ RunnerWrite
    \/ Tick
    \/ iter_as_available_call
    \/ gen_next
    \/ iaa_scan
    \/ GenSleepDone

SpecAvailable == Init /\ [][NextAvailable]_vars

---------------------------------------------------------------------------
(* Waiting without a timeout: a call of wait(), or a generator of iter() or *)
(* iter_as_available() that its caller keeps asking for the next result,    *)
(* while runners write or crash.  Nothing is rerun and nothing is deleted.  *)

\* time.sleep(1) returns, in wait() or in a generator.  A call without a
\* timeout does not read the clock, which is left alone here.
SleepReturns ==
    /\ call.pc = "sleeping" \/ gen.pc = "sleeping"
    /\ call' = IF call.pc = "sleeping"
               THEN [call EXCEPT !.pc = "check"] ELSE call
    /\ gen' = IF gen.pc # "sleeping" THEN gen
              ELSE IF gen.op \in InOrder THEN [gen EXCEPT !.pc = "check"]
              ELSE IF gen.pending = {} THEN [gen EXCEPT !.pc = "ended"]
              ELSE [gen EXCEPT !.pc = "scan", !.scan = gen.pending]
    /\ UNCHANGED <<storeVars, ret, now, yielded, trace, lifeVars, run>>

\* A submitted map on which wait(timeout = None) has just been called, or
\* one of the generators has just been made with timeout = None.
InitLive ==
    /\ now = 0
    /\ \E op \in {"wait"} \cup InOrder \cup AsAvailable :
           /\ call = IF op = "wait"
                     THEN Frame("wait", "wait", 0, TimeoutNone) ELSE idle
           /\ gen = IF op = "wait" THEN idle ELSE GenFrame(op, TimeoutNone)
           /\ ret = IF op = "wait" THEN NoCall ELSE Returned(op, None)
    /\ cluster_ids = <<1>>
    /\ is_removed = FALSE
    /\ MAPS = {map_id}
    /\ dir_exists = TRUE
    /\ outputs = [f \in FileNames |-> NoFile]
    /\ live = {[cluster |-> 1, hash |-> h] : h \in hash_set}
    /\ last_itemdata = hashes
    /\ yielded = <<>>
    /\ run = idle
    /\ trace = <<>>
    /\ objs = <<>>
    /\ registry = [id \in Ids |-> 0]
    /\ dirs = [id \in Ids |-> NoDir]

NextLive ==
    \/ RunnerWrite
    \/ RunnerCrash
    \/ wait_check
    \/ gen_next
    \/ iter_check
    \/ iaa_scan
    \/ SleepReturns

\* The controller runs: a poll loop takes its next turn, a sleep returns, and
\* the caller of a generator asks for the next result.  Nothing is assumed
\* of the runners.
SpecLive ==
    /\ InitLive
    /\ [][NextLive]_vars
    /\ WF_vars(wait_check)
    /\ WF_vars(gen_next)
    /\ WF_vars(iter_check)
    /\ WF_vars(iaa_scan)
    /\ WF_vars(SleepReturns)

\* Any content of the outputs directory: results of the first submission,
\* and files that are no results.  The executions without a result are in
\* the queue.
InitOutputs ==
    /\ cluster_ids = <<1>>
    /\ is_removed = FALSE
    /\ MAPS = {map_id}
    /\ dir_exists = TRUE
    /\ outputs \in [DirNames -> {NoFile} \cup [status : {"OK", "ERR"}, cluster : {1}]
                                       \cup [status : {"OTHER"}, cluster : {0}]]
    /\ \A f \in DirNames :
          /\ f.suffix = "out" => outputs[f].status # "OTHER"
          /\ f.suffix # "out" => outputs[f].status \in {"NoFile", "OTHER"}
    /\ live = {[cluster |-> 1, hash |-> h] :
                  h \in {x \in hash_set : outputs[OutPath(x)] = NoFile}}
    /\ last_itemdata = hashes
    /\ ret = NoCall
    /\ now = 0
    /\ call = idle
    /\ gen = idle
    /\ yielded = <<>>
    /\ run = idle
    /\ trace = <<>>
    /\ objs = <<>>
    /\ registry = [id \in Ids |-> 0]
    /\ dirs = [id \in Ids |-> NoDir]

\* The views of completion, over any content of the outputs directory.
SpecOutputs ==
    InitOutputs /\ [][is_done \/ is_running \/ status_counts \/ getitem_call
                         \/ get_check \/ wait_call \/ wait_check
                         \/ SleepReturns]_vars

---------------------------------------------------------------------------
(* Claims about the Output Store and the controller. *)

\* The number of elements of a sequence that equal x.
RECURSIVE CountOf(_, _)
CountOf(seq, x) ==
    IF seq = <<>> THEN 0
    ELSE (IF Head(seq) = x THEN 1 ELSE 0) + CountOf(Tail(seq), x)

\* The hashes whose result artifact <hash>.out exists.
WithArtifact == {h \in hash_set : Exists(OutPath(h))}

\* C1: in every reachable state of the Output Store, completed_hashes and
\* missing_hashes computed from that state are disjoint, and together they are
\* exactly the hashes of the map: every input index is in one of them, and
\* each list keeps the input order.
C1_Partition ==
    dir_exists =>
        LET c == _completed_hashes
            m == _missing_hashes
        IN  /\ Range(c) \cap Range(m) = {}
            /\ Range(c) \cup Range(m) = hash_set
            /\ Len(c) + Len(m) = Len(hashes)
            /\ \A i \in 1..Len(hashes) :
                   hashes[i] \in Range(m) <=> ~Exists(OutPath(hashes[i]))

\* C1 witness: after a rerun, some hash is completed and some hash is missing.
C1_Witness ==
    /\ dir_exists
    /\ Len(cluster_ids) > 1
    /\ Len(_completed_hashes) > 0
    /\ Len(_missing_hashes) > 0

\* C2: once remove() has completed, every public operation on the instance,
\* the properties is_done and is_running included, fails with MapWasRemoved.
C2_AllGuarded ==
    (/\ is_removed
     /\ ret.op \in {m.name : m \in PublicMembers}
     /\ ~(ret.op = "remove" /\ ret.exc = None))
        => ret.exc = "MapWasRemoved"

\* C3: whatever the scheduler answers, status_counts()[COMPLETED] is the number
\* of hashes that have a result artifact, and the count of every other status
\* is the number of records of the answer with that status.
C3_StatusCounts ==
    (ret.op = "status_counts" /\ ret.exc = None) =>
        /\ ret.val[COMPLETED] = Cardinality(WithArtifact)
        /\ \A s \in Status \ {COMPLETED} :
               ret.val[s] = CountOf(ret.query, s)

\* C3 witness: the scheduler reported a number of COMPLETED components that is
\* not the number of artifacts, together with components in another status.
C3_Witness ==
    /\ ret.op = "status_counts"
    /\ ret.exc = None
    /\ Cardinality(WithArtifact) > 0
    /\ Cardinality(WithArtifact) < NumHashes
    /\ CountOf(ret.query, COMPLETED) # Cardinality(WithArtifact)
    /\ ret.val[IDLE] > 0

\* C9: rerun_incomplete() passes to the submission the item data of exactly
\* the hashes that have no artifact when it is called, each once, and leaves
\* every file of the outputs directory as it was.
C9_RerunIncomplete ==
    [][(rerun_incomplete /\ ~is_removed) =>
          /\ Range(last_itemdata') = hash_set \ WithArtifact
          /\ Len(last_itemdata') = Cardinality(hash_set \ WithArtifact)
          /\ \A f \in FileNames : outputs'[f] = outputs[f]]_vars

\* C9 witness: rerun_incomplete() resubmitted some of the hashes, not all.
C9_Witness ==
    /\ ret.op = "rerun_incomplete"
    /\ ret.exc = None
    /\ Len(last_itemdata) > 0
    /\ Len(last_itemdata) < NumHashes
    /\ \A i \in 1..Len(last_itemdata) :
           [cluster |-> Len(cluster_ids), hash |-> last_itemdata[i]] \in live

\* C10: right after rerun() no hash has an artifact: missing_hashes is the
\* whole hash sequence, is_done is false, and the item data passed to the
\* submission covers every hash.
C10_Rerun ==
    [][(rerun /\ ~is_removed) =>
          /\ \A f \in FileNames : outputs'[f] = NoFile
          /\ missing_in(outputs') = hashes
          /\ Len(missing_in(outputs')) # 0
          /\ last_itemdata' = hashes]_vars

\* C10 witness: rerun() has returned, nothing has an artifact, and every hash
\* has an execution of the new submission.
C10_Witness ==
    /\ ret.op = "rerun"
    /\ ret.exc = None
    /\ WithArtifact = {}
    /\ \A h \in hash_set : [cluster |-> Len(cluster_ids), hash |-> h] \in live
    /\ Len(cluster_ids) > 1

---------------------------------------------------------------------------
(* Claims about get() and wait(). *)

\* The budget of a call with a timeout has elapsed.
Elapsed(frame) == frame.timeout.given /\ now > frame.start + frame.timeout.secs

\* C4: in get(index, timeout), when the artifact of the index is absent the
\* call fails with OutputNotFound if timeout <= 0, at the first look and
\* without having slept, and with TimeoutError if timeout > 0 and the budget
\* has elapsed; it raises these only then.  When the artifact exists the call
\* returns its content.  map[index] is get(index, timeout = 0).
C4_Get ==
    [][get_check =>
          LET path == OutPath(hashes[call.item])
              absent == ~Exists(path)
              t == call.timeout
              ended == call'.pc = "idle"
          IN  /\ (absent /\ t.given /\ t.secs <= 0) =>
                     (ended /\ ret'.exc = "OutputNotFound" /\ ~ret'.slept)
              /\ (absent /\ t.given /\ t.secs > 0 /\ Elapsed(call)) =>
                     (ended /\ ret'.exc = "TimeoutError")
              /\ (ended /\ ret'.exc = "OutputNotFound") =>
                     (absent /\ t.given /\ t.secs <= 0)
              /\ (ended /\ ret'.exc = "TimeoutError") =>
                     (absent /\ t.secs > 0 /\ Elapsed(call))
              /\ ~absent =>
                     (ended /\ ret'.exc = None /\ ret'.val = outputs[path])
              /\ call.via = "__getitem__" =>
                     (t = Seconds(0) /\ ended /\ ~ret'.slept)]_vars

\* C4 witness: a get() with a positive timeout slept and then timed out.
C4_Witness ==
    /\ ret.op = "get"
    /\ ret.exc = "TimeoutError"
    /\ ret.slept
    /\ ret.timeout.secs > 0

\* C5: wait(timeout) returns only when no hash is missing, and raises
\* TimeoutError only when some hash is missing and the budget has elapsed; when
\* no hash is missing it returns at that check, so on a completed map at the
\* first check, without sleeping, whatever the timeout.
C5_Wait ==
    [][wait_check =>
          LET ended == call'.pc = "idle"
          IN  /\ (ended /\ ret'.exc = None) => Len(_missing_hashes) = 0
              /\ (ended /\ ret'.exc = "TimeoutError") =>
                     (Len(_missing_hashes) > 0 /\ Elapsed(call))
              /\ Len(_missing_hashes) = 0 =>
                     (ended /\ ret'.exc = None /\ ret'.slept = call.slept)]_vars

\* C5 witness: wait() with a negative timeout returned from a completed map
\* without sleeping.
C5_Witness ==
    /\ ret.op = "wait"
    /\ ret.exc = None
    /\ ret.timeout = Seconds(-1)
    /\ ~ret.slept
    /\ Len(_missing_hashes) = 0

---------------------------------------------------------------------------
(* Claims about the generators. *)

\* The items the generator has yielded, in order.
Yields ==
    LET ys == SelectSeq(yielded, LAMBDA e : e.ev = "yield")
    IN  [i \in 1..Len(ys) |-> ys[i].item]

YieldedHashes == {Yields[i].out : i \in 1..Len(Yields)}

\* Every yield comes right after the callback call on the same item.
CallbackBeforeYield(events) ==
    \A i \in 1..Len(events) :
        events[i].ev = "yield" =>
            (i > 1 /\ events[i - 1] = [ev |-> "callback", item |-> events[i].item])

\* C6: iter() and iter_with_inputs() yield in input order: what has been
\* yielded is a prefix of the hashes in input order (with_inputs: each with
\* the input of the same index), a result is yielded only in a step that
\* finds its artifact, and the callback is called on each item before it is
\* yielded.
C6_IterInOrder ==
    [][(gen'.pc # "idle" /\ gen'.op \in InOrder) =>
          /\ Len(Yields') <= NumHashes
          /\ \A i \in 1..Len(Yields') :
                 /\ Yields'[i].out = hashes[i]
                 /\ Yields'[i].inp =
                        (IF gen'.op = "iter_with_inputs" THEN hashes[i] ELSE 0)
          /\ CallbackBeforeYield(yielded')
          /\ Len(yielded') > Len(yielded) =>
                 /\ gen.pc = "check"
                 /\ Len(Yields') = Len(Yields) + 1
                 /\ Exists(OutPath(Yields'[Len(Yields')].out))]_vars

\* C6 witness: an iter() had to sleep for the last input (an earlier check
\* found its artifact absent) and has then yielded every result.
C6_Witness ==
    /\ gen.pc = "ended"
    /\ gen.op = "iter"
    /\ gen.exc = None
    /\ gen.wake > gen.start
    /\ Len(Yields) = NumHashes

\* C7: one iter_as_available() (or _with_inputs) yields each hash at most
\* once, and only in a step that finds its artifact; its pending set only
\* shrinks; and when it ends with an empty pending set it has yielded every
\* hash of the map exactly once.
C7_AsAvailable ==
    [][(gen'.pc # "idle" /\ gen'.op \in AsAvailable) =>
          /\ Cardinality(YieldedHashes') = Len(Yields')
          /\ CallbackBeforeYield(yielded')
          /\ Len(yielded') > Len(yielded) =>
                 /\ gen.pc = "scan"
                 /\ Len(Yields') = Len(Yields) + 1
                 /\ Exists(OutPath(Yields'[Len(Yields')].out))
                 /\ Yields'[Len(Yields')].out \in gen.pending
          /\ (gen.pc \notin {"idle", "ended"} /\ gen.started) =>
                 gen'.pending \subseteq gen.pending
          /\ (gen'.pc = "ended" /\ gen'.pending = {}) =>
                 (YieldedHashes' = hash_set /\ Len(Yields') = NumHashes)]_vars

\* C7 witness: an iter_as_available() ended with an empty pending set after
\* having slept, and its first yield was not the first input.
C7_Witness ==
    /\ gen.pc = "ended"
    /\ gen.op = "iter_as_available"
    /\ gen.pending = {}
    /\ gen.wake > gen.start
    /\ Len(Yields) = NumHashes
    /\ Yields[1].out # hashes[1]

\* C8: iter_as_available(timeout = t) and iter_as_available_with_inputs
\* (timeout = t) never end normally while a hash is still pending: they raise
\* TimeoutError.
C8_TimeoutRaises ==
    (/\ gen.pc = "ended"
     /\ gen.op \in AsAvailable
     /\ gen.pending # {})
        => gen.exc = "TimeoutError"

---------------------------------------------------------------------------
(* The batch id history. *)

\* A step of rerun() or rerun_incomplete() that returned normally.
RerunSucceeded ==
    /\ rerun \/ rerun_incomplete
    /\ ret'.op \in {"rerun", "rerun_incomplete"}
    /\ ret'.exc = None

\* C11: cluster_ids is append-only and grows by exactly one element in every
\* successful rerun() or rerun_incomplete(); no other step (a failed rerun,
\* remove, is_done, a runner) changes it.  Every earlier value is then a
\* prefix of every later one.  Map.hashes is a tuple that nothing assigns
\* after __init__: it is the definition hashes, the same in every state.
C11_AppendOnly ==
    [][ /\ RerunSucceeded =>
            \E cid \in 1..(MaxClusters + 1) :
                /\ cid \notin Range(cluster_ids)
                /\ cluster_ids' = Append(cluster_ids, cid)
        /\ ~RerunSucceeded => cluster_ids' = cluster_ids ]_vars

\* A second batch id was appended by a successful rerun, and the map was
\* removed afterwards with both batch ids still in the list.
C11_Witness ==
    /\ Len(cluster_ids) = 2
    /\ cluster_ids[1] = 1
    /\ ret = Returned("remove", None)

---------------------------------------------------------------------------
(* Several maps in one process: the Map instances, the registry MAPS and   *)
(* the map directories.  A call is a function from the world before it to  *)
(* the outcomes it can have, so that rename can call recover and remove.   *)
(* The variables of the one-map specifications are not used here.          *)

oneMapVars == <<cluster_ids, is_removed, MAPS, dir_exists, outputs,
                last_itemdata, now, call, gen, yielded, run>>

\* The files Map.recover reads in a map directory.
RequiredFiles == {"cluster_ids", "hashes", "submit"}

NoOutputs == [f \in FileNames |-> NoFile]

\* A map directory with its required files: the batch ids, the hashes, the
\* submit template (as the map id its paths and JobBatchName name), and the
\* outputs directory.
Dir(cids, hs, submit, outs) ==
    [status |-> "Dir", files |-> RequiredFiles, cluster_ids |-> cids,
     hashes |-> hs, submit |-> submit, outputs |-> outs]

\* What is left of a directory whose files were deleted but not itself.
Gutted ==
    [status |-> "Dir", files |-> {}, cluster_ids |-> <<>>, hashes |-> <<>>,
     submit |-> "", outputs |-> NoOutputs]

\* shutil.rmtree that raises part-way: nothing was deleted yet, or the files
\* were and the directory was not.
rmtree_leaves(d) == {d, Gutted}

\* Map.__init__(map_id, cluster_ids, submit, hashes), without the registration
Map(id, cids, submit, hs) ==
    [map_id |-> id, cluster_ids |-> cids, submit |-> submit, hashes |-> hs,
     is_removed |-> FALSE]

\* The hashes of the second map of the model.
other_hashes == Tail(hashes)

\* The state the calls work on.
World == [objs |-> objs, registry |-> registry, dirs |-> dirs, live |-> live]

\* An outcome of a call: what it raised or None, what it returned, the world
\* it leaves, the calls it issued.
Out(exc, val, w, tr) == [exc |-> exc, val |-> val, world |-> w, trace |-> tr]

\* The worlds a call that did not raise leaves.
After(outs) == {x.world : x \in {y \in outs : y.exc = None}}

\* Sequencing: f, a function of the world, runs from every outcome of outs
\* that did not raise; a raise ends the call.  The trace goes on.
Then(outs, f) ==
    UNION { IF x.exc # None
            THEN {x}
            ELSE {[y EXCEPT !.trace = x.trace \o y.trace] : y \in f[x.world]} :
            x \in outs }

\* _protector, for the instance o.
Protected(o, name, w, outs) ==
    IF name \in _protect_map_after_remove /\ w.objs[o].is_removed
    THEN {Out("MapWasRemoved", None, w, <<>>)}
    ELSE outs

\* Mutant of ClusterIdIn: only the latest cluster id is named.
ClusterIdLatest(cids) == IF cids = <<>> THEN {} ELSE {cids[Len(cids)]}

\* Map._requirements(): the clusters that '(ClusterId==c1 || ClusterId==c2 ...)'
\* matches, for the cluster ids of an instance.
ClusterIdIn(cids) == Range(cids)

\* The queues a scheduler remove action on the clusters of scope can leave.
QueuesAfterRemove(queue, scope) ==
    LET matched == {j \in queue : j.cluster \in scope}
    IN  {(queue \ matched) \cup survivors :
            survivors \in {x \in SUBSET matched : Cardinality(x) <= MaxSurvivors}}

\* Mutant of Map_remove_body: the flag is set before the directory is deleted.
Map_remove_flag_first(o, w) ==
    LET self == w.objs[o]
        id == self.map_id
        scope == ClusterIdIn(self.cluster_ids)
        flagged == [w EXCEPT !.objs[o].is_removed = TRUE]
    IN  {Out("RuntimeError", None, w, <<act("Remove", scope)>>)}
        \cup
        {Out("OSError", None, [flagged EXCEPT !.live = q],
             <<act("Remove", scope), set_is_removed(id), rmtree(id)>>) :
            q \in QueuesAfterRemove(w.live, scope)}
        \cup
        {Out(None, None,
             [flagged EXCEPT !.live = q, !.dirs[id] = NoDir, !.registry[id] = 0],
             <<act("Remove", scope), set_is_removed(id), rmtree(id), pop(id)>>) :
            q \in QueuesAfterRemove(w.live, scope)}

\* Map.remove on the instance o: schedd.act may raise; shutil.rmtree raises
\* when the directory is not there and may raise part-way; MAPS.pop raises
\* when the registry has no entry.
Map_remove_body(o, w) ==
    LET self == w.objs[o]
        id == self.map_id
        scope == ClusterIdIn(self.cluster_ids)
        acted == <<act("Remove", scope)>>
        tried == acted \o <<rmtree(id)>>
        all == tried \o <<set_is_removed(id), pop(id)>>
    IN  {Out("RuntimeError", None, w, acted)}
        \cup
        UNION {
          LET w1 == [w EXCEPT !.live = q]
              w2 == [w1 EXCEPT !.dirs[id] = NoDir, !.objs[o].is_removed = TRUE]
          IN  IF w.dirs[id] = NoDir
              THEN {Out("FileNotFoundError", None, w1, tried)}
              ELSE {Out("OSError", None, [w1 EXCEPT !.dirs[id] = d], tried) :
                        d \in rmtree_leaves(w.dirs[id])}
                   \cup
                   (IF w.registry[id] = 0
                    THEN {Out("KeyError", None, w2, all)}
                    ELSE {Out(None, None, [w2 EXCEPT !.registry[id] = 0], all)})
          : q \in QueuesAfterRemove(w.live, scope) }

Map_remove(o, w) == Protected(o, "remove", w, Map_remove_body(o, w))

\* The cluster id the scheduler gives to the next submission: ids are never
\* given twice.
NextCluster(w) ==
    LET used == UNION {Range(w.objs[o].cluster_ids) : o \in 1..Len(w.objs)}
                \cup UNION {Range(w.dirs[id].cluster_ids) :
                               id \in {i \in Ids : w.dirs[i] # NoDir}}
    IN  1 + Cardinality(used)

\* Map.rerun_incomplete on the instance o, as _rerun above: the new cluster id
\* is appended to the list of the instance and written nowhere.
Map_rerun_incomplete_body(o, w) ==
    LET self == w.objs[o]
        id == self.map_id
        scope == ClusterIdIn(self.cluster_ids)
    IN  IF w.dirs[id] = NoDir \/ "submit" \notin w.dirs[id].files
        THEN {Out("FileNotFoundError", None, w, <<>>)}
        ELSE LET target == SelectSeq(self.hashes,
                               LAMBDA h : h \notin done(w.dirs[id].outputs))
                 tr == <<act("Remove", scope), execute_submit(target)>>
                 cid == NextCluster(w)
             IN  UNION {
                   { Out("SubmitError", None, [w EXCEPT !.live = q], tr),
                     Out(None, None,
                         [w EXCEPT !.live = q \cup
                                       {[cluster |-> cid, hash |-> h, dir |-> id] :
                                           h \in Range(target)},
                                   !.objs[o].cluster_ids = Append(@, cid)],
                         tr) }
                   : q \in QueuesAfterRemove(w.live, scope) }

Map_rerun_incomplete(o, w) ==
    Protected(o, "rerun_incomplete", w, Map_rerun_incomplete_body(o, w))

\* A call ends: the world it leaves, what it returned or raised, its trace.
Ends(op, self, arg, force, outs) ==
    \E out \in outs :
        /\ Len(out.world.objs) <= MaxObjects
        /\ objs' = out.world.objs
        /\ registry' = out.world.registry
        /\ dirs' = out.world.dirs
        /\ live' = out.world.live
        /\ trace' = out.trace
        /\ ret' = [op |-> op, exc |-> out.exc, val |-> out.val, self |-> self,
                   arg |-> arg, force |-> force]
        /\ UNCHANGED oneMapVars

remove_call(o) == Ends("remove", o, None, FALSE, Map_remove(o, World))

rerun_incomplete_call(o) ==
    /\ Len(objs[o].cluster_ids) < MaxClusters
    /\ Ends("rerun_incomplete", o, None, FALSE, Map_rerun_incomplete(o, World))

\* The component runner of an execution writes its artifact into the outputs
\* directory of the map directory it was submitted from.
RunnerWriteTo ==
    \E j \in live :
        /\ dirs[j.dir] # NoDir
        /\ dirs' = [dirs EXCEPT ![j.dir].outputs[OutPath(j.hash)] =
                                    [status |-> "OK", cluster |-> j.cluster]]
        /\ live' = live \ {j}
        /\ UNCHANGED <<objs, registry, ret, trace, oneMapVars>>

\* One map, built and submitted once by mapping.map().
InitRemove ==
    /\ objs = <<Map(map_id, <<1>>, map_id, hashes)>>
    /\ registry = [id \in Ids |-> IF id = map_id THEN 1 ELSE 0]
    /\ dirs = [id \in Ids |-> IF id = map_id
                              THEN Dir(<<1>>, hashes, map_id, NoOutputs)
                              ELSE NoDir]
    /\ live = {[cluster |-> 1, hash |-> h, dir |-> map_id] : h \in hash_set}
    /\ trace = <<>>
    /\ ret = NoCall
    /\ cluster_ids = <<>>
    /\ is_removed = FALSE
    /\ MAPS = {}
    /\ dir_exists = FALSE
    /\ outputs = NoOutputs
    /\ last_itemdata = <<>>
    /\ now = 0
    /\ call = idle
    /\ gen = idle
    /\ yielded = <<>>
    /\ run = idle

remove_any == \E o \in 1..Len(objs) : remove_call(o)

rerun_incomplete_any == \E o \in 1..Len(objs) : rerun_incomplete_call(o)

NextRemove ==
    \/ RunnerWriteTo
    \/ rerun_incomplete_any
    \/ remove_any

SpecRemove == InitRemove /\ [][NextRemove]_vars

---------------------------------------------------------------------------
(* recover and rename. *)

\* The cluster_ids file is opened, then htio.load_hashes(map_dir) and
\* htio.load_submit(map_dir) read theirs: one of them raises
\* FileNotFoundError when the directory or its file is not there.
load_raises(id, w) ==
    w.dirs[id] = NoDir \/ ~(RequiredFiles \subseteq w.dirs[id].files)

\* mapping.raise_if_map_id_already_exists(map_id) raises MapIdAlreadyExists:
\* the map directory of the id exists.
map_id_already_exists(id, w) == w.dirs[id] # NoDir

\* Mutant of Map_recover: the registry is not looked at first.
Map_recover_always_load(id, w) ==
    IF load_raises(id, w)
    THEN {Out("MapIdNotFound", None, w, <<load(id)>>)}
    ELSE LET d == w.dirs[id]
             new == Len(w.objs) + 1
         IN  {Out(None, new,
                  [w EXCEPT !.objs = Append(@, Map(id, d.cluster_ids, d.submit,
                                                   d.hashes)),
                            !.registry[id] = new],
                  <<load(id), register(id)>>)}

\* Map.recover(map_id), a classmethod: the registered instance, or a new one
\* from the cluster_ids file, htio.load_hashes and htio.load_submit, which
\* raise FileNotFoundError (load_raises): MapIdNotFound.
Map_recover(id, w) ==
    IF w.registry[id] # 0
    THEN {Out(None, w.registry[id], w, <<>>)}
    ELSE IF load_raises(id, w)
         THEN {Out("MapIdNotFound", None, w, <<load(id)>>)}
         ELSE LET d == w.dirs[id]
                  new == Len(w.objs) + 1
              IN  {Out(None, new,
                       [w EXCEPT !.objs = Append(@, Map(id, d.cluster_ids,
                                                        d.submit, d.hashes)),
                                 !.registry[id] = new],
                       <<load(id), register(id)>>)}

\* Mutant of rename_refuses: an incomplete map is let through.
rename_refuses_own_id(self, new, d) == new = self.map_id

\* Map.rename, its two tests: map_id == self.map_id, not self.is_done.
rename_refuses(self, new, d) ==
    \/ new = self.map_id
    \/ SelectSeq(self.hashes, LAMBDA h : h \notin done(d.outputs)) # <<>>

\* Mutant of rename_make_room: force_overwrite removes nothing.
rename_make_room_keep(new, force, w) ==
    IF force
    THEN {Out(None, None, w, <<>>)}
    ELSE IF map_id_already_exists(new, w)
         THEN {Out("CannotRenameMap", None, w, <<check_exists(new)>>)}
         ELSE {Out(None, None, w, <<check_exists(new)>>)}

\* Map.rename, `if force_overwrite: ... else: ...`: Map.recover(map_id)
\* .remove() with MapIdNotFound passed over, or
\* mapping.raise_if_map_id_already_exists(map_id), which raises when the map
\* directory of the id exists.
rename_make_room(new, force, w) ==
    IF force
    THEN UNION { IF r.exc = "MapIdNotFound"
                 THEN {Out(None, None, r.world, r.trace)}
                 ELSE {[x EXCEPT !.trace = r.trace \o x.trace] :
                          x \in Map_remove(r.val, r.world)} :
                 r \in Map_recover(new, w) }
    ELSE IF map_id_already_exists(new, w)
         THEN {Out("CannotRenameMap", None, w, <<check_exists(new)>>)}
         ELSE {Out(None, None, w, <<check_exists(new)>>)}

\* shutil.copytree that raises part-way: the new directory is there, with
\* nothing in it or without the outputs.
copytree_leaves(src) == {Gutted, [src EXCEPT !.outputs = NoOutputs]}

\* Mutant of rename_copy: the directory is moved, so that a failure part-way
\* leaves the old directory without some of its files.
rename_copy_move(o, new, w) ==
    LET id == w.objs[o].map_id
        tr == <<copytree(id, new)>>
    IN  IF w.dirs[new] # NoDir
        THEN {Out("FileExistsError", None, w, tr)}
        ELSE {Out("OSError", None,
                  [w EXCEPT !.dirs[new] = d, !.dirs[id] = Gutted], tr) :
                 d \in copytree_leaves(w.dirs[id])}
             \cup {Out(None, None, [w EXCEPT !.dirs[new] = w.dirs[id]], tr)}

\* Map.rename: shutil.copytree(src = self._map_dir, dst = new_map_dir), which
\* raises when dst exists.
rename_copy(o, new, w) ==
    LET id == w.objs[o].map_id
        tr == <<copytree(id, new)>>
    IN  IF w.dirs[new] # NoDir
        THEN {Out("FileExistsError", None, w, tr)}
        ELSE {Out("OSError", None, [w EXCEPT !.dirs[new] = d], tr) :
                 d \in copytree_leaves(w.dirs[id])}
             \cup {Out(None, None, [w EXCEPT !.dirs[new] = w.dirs[id]], tr)}

\* Map.rename: the submit template gets the new JobBatchName and the new
\* paths, and htio.save_submit writes it into the new directory.
rename_save_submit(new, w) ==
    {Out("OSError", None, w, <<save_submit(new)>>),
     Out(None, None, [w EXCEPT !.dirs[new].submit = new], <<save_submit(new)>>)}

\* Mutant of rename_construct: the new instance starts without cluster ids.
rename_construct_fresh(o, new, w) ==
    LET self == w.objs[o]
        k == Len(w.objs) + 1
    IN  {Out(None, k,
             [w EXCEPT !.objs = Append(@, Map(new, <<>>, new, self.hashes)),
                       !.registry[new] = k],
             <<register(new)>>)}

\* Map.rename: return Map(map_id = map_id, submit = submit,
\* cluster_ids = self.cluster_ids, hashes = self.hashes)
rename_construct(o, new, w) ==
    LET self == w.objs[o]
        k == Len(w.objs) + 1
    IN  {Out(None, k,
             [w EXCEPT !.objs = Append(@, Map(new, self.cluster_ids, new,
                                              self.hashes)),
                       !.registry[new] = k],
             <<register(new)>>)}

\* Map.rename(map_id, force_overwrite) on the instance o.  The message of the
\* second CannotRenameMap holds self.status_counts(), a scheduler query.
Map_rename_body(o, new, force, w) ==
    LET self == w.objs[o]
        id == self.map_id
    IN  IF new # id /\ w.dirs[id] = NoDir
        THEN {Out("FileNotFoundError", None, w, <<>>)}
        ELSE IF rename_refuses(self, new, w.dirs[id])
        THEN {Out("CannotRenameMap", None, w,
                  IF new = id THEN <<>>
                  ELSE <<xquery(ClusterIdIn(self.cluster_ids), None,
                               <<"JobStatus">>)>>)}
        ELSE LET room == rename_make_room(new, force, w)
                 copied == Then(room, [v \in After(room) |->
                                          rename_copy(o, new, v)])
                 saved == Then(copied, [v \in After(copied) |->
                                           rename_save_submit(new, v)])
                 removed == Then(saved, [v \in After(saved) |->
                                            Map_remove(o, v)])
             IN  Then(removed, [v \in After(removed) |->
                                   rename_construct(o, new, v)])

Map_rename(o, new, force, w) ==
    Protected(o, "rename", w, Map_rename_body(o, new, force, w))

rename_call(o, new, force) ==
    Ends("rename", o, new, force, Map_rename(o, new, force, World))

recover_call(id) == Ends("recover", 0, id, FALSE, Map_recover(id, World))

rename_any ==
    \E o \in 1..Len(objs), new \in Ids, force \in BOOLEAN :
        rename_call(o, new, force)

recover_any == \E id \in Ids : recover_call(id)

\* The first map as in InitRemove.  The second map id is free, or has a map
\* that an earlier process made (not registered here), or one of this process.
InitRename ==
    \E second \in {"free", "on disk", "registered"} :
        /\ objs = <<Map(map_id, <<1>>, map_id, hashes)>>
                  \o (IF second = "registered"
                      THEN <<Map("n", <<2>>, "n", other_hashes)>> ELSE <<>>)
        /\ registry = [id \in Ids |-> IF id = map_id THEN 1
                                      ELSE IF second = "registered" THEN 2
                                      ELSE 0]
        /\ dirs = [id \in Ids |->
                      IF id = map_id THEN Dir(<<1>>, hashes, map_id, NoOutputs)
                      ELSE IF second = "free" THEN NoDir
                      ELSE Dir(<<2>>, other_hashes, "n", NoOutputs)]
        /\ live = {[cluster |-> 1, hash |-> h, dir |-> map_id] : h \in hash_set}
                  \cup (IF second = "free" THEN {}
                        ELSE {[cluster |-> 2, hash |-> h, dir |-> "n"] :
                                 h \in Range(other_hashes)})
        /\ trace = <<>>
        /\ ret = NoCall
        /\ cluster_ids = <<>>
        /\ is_removed = FALSE
        /\ MAPS = {}
        /\ dir_exists = FALSE
        /\ outputs = NoOutputs
        /\ last_itemdata = <<>>
        /\ now = 0
        /\ call = idle
        /\ gen = idle
        /\ yielded = <<>>
        /\ run = idle

NextRename ==
    \/ RunnerWriteTo
    \/ remove_any
    \/ recover_any
    \/ rename_any

SpecRename == InitRename /\ [][NextRename]_vars

---------------------------------------------------------------------------
(* Direct construction of instances, and one process after another: the     *)
(* process ends and the next one starts with an empty registry, on the same *)
(* directories and the same queue.                                          *)

\* Map.__init__ called with the attributes of the instance o:
\* Map(o.map_id, o.cluster_ids, o.submit, o.hashes).  The new instance takes
\* the entry MAPS[map_id], whatever it held.
construct_any ==
    \E o \in 1..Len(objs) :
        LET self == objs[o]
            k == Len(objs) + 1
        IN  Ends("__init__", o, self.map_id, FALSE,
                 {Out(None, k,
                      [World EXCEPT
                          !.objs = Append(@, Map(self.map_id, self.cluster_ids,
                                                 self.submit, self.hashes)),
                          !.registry[self.map_id] = k],
                      <<register(self.map_id)>>)})

\* The process ends and a new one starts: MAPS = {} and no instance yet.
Restart ==
    /\ objs # <<>>
    /\ objs' = <<>>
    /\ registry' = [id \in Ids |-> 0]
    /\ trace' = <<>>
    /\ ret' = NoCall
    /\ UNCHANGED <<dirs, live, oneMapVars>>

\* Processes that rerun, remove and recover the first map, one after another.
SpecRestart == InitRemove /\ [][NextRemove \/ recover_any \/ Restart]_vars

\* One process that also constructs instances directly.
SpecRegistry == InitRename /\ [][NextRename \/ construct_any]_vars

---------------------------------------------------------------------------
(* The scheduler actions and edits of a map, among the maps of a process. *)

\* The htcondor.JobAction that each method hands to _act.
JobAction ==
    [hold |-> "Hold", release |-> "Release", pause |-> "Suspend",
     resume |-> "Continue", vacate |-> "Vacate"]

\* Mutant of Map_act_body: the action names every cluster of the queue.
Map_act_body_queue_wide(o, name, w) ==
    {Out(exc, None, w, <<act(JobAction[name], {j.cluster : j \in w.live})>>) :
        exc \in {None, "RuntimeError"}}

\* Map.hold, release, pause, resume, vacate on the instance o: one
\* schedd.act(action, self._requirements()), which may raise.
Map_act_body(o, name, w) ==
    {Out(exc, None, w,
         <<act(JobAction[name], ClusterIdIn(w.objs[o].cluster_ids))>>) :
        exc \in {None, "RuntimeError"}}

Map_act(o, name, w) == Protected(o, name, w, Map_act_body(o, name, w))

act_call(o, name) == Ends(name, o, None, FALSE, Map_act(o, name, World))

\* The text of an amount, such as '100MB': its digits and its unit.
Text(n, unit) == [num |-> n, unit |-> unit]

\* The argument of set_memory or set_disk: an int, or a str.
Number(n) == [kind |-> "number", num |-> n, unit |-> ""]

Str(n, unit) == [kind |-> "str", num |-> n, unit |-> unit]

Amounts ==
    {Number(n) : n \in 1..MaxAmount}
    \cup {Str(n, unit) : n \in 1..MaxAmount, unit \in {"MB", "GB"}}

\* Map.set_memory: if isinstance(memory, (int, float)): memory = f'{memory}MB'
set_memory_value(a) ==
    IF a.kind = "number" THEN Text(a.num, "MB") ELSE Text(a.num, a.unit)

\* Map.set_disk: if isinstance(disk, (int, float)): disk = f'{disk}MB'
set_disk_value(a) ==
    IF a.kind = "number" THEN Text(a.num, "MB") ELSE Text(a.num, a.unit)

\* Map._edit(attr, value) on the instance o: one
\* schedd.edit(self._requirements(), attr, value), which may raise.
Map_edit_body(o, attr, value, w) ==
    {Out(exc, None, w,
         <<edit(ClusterIdIn(w.objs[o].cluster_ids), attr, value)>>) :
        exc \in {None, "RuntimeError"}}

set_memory_call(o, a) ==
    Ends("set_memory", o, a, FALSE,
         Protected(o, "set_memory", World,
                   Map_edit_body(o, "RequestMemory", set_memory_value(a), World)))

set_disk_call(o, a) ==
    Ends("set_disk", o, a, FALSE,
         Protected(o, "set_disk", World,
                   Map_edit_body(o, "RequestDisk", set_disk_value(a), World)))

act_any ==
    \E o \in 1..Len(objs), name \in DOMAIN JobAction : act_call(o, name)

set_memory_any ==
    \E o \in 1..Len(objs), a \in Amounts : set_memory_call(o, a)

set_disk_any ==
    \E o \in 1..Len(objs), a \in Amounts : set_disk_call(o, a)

\* Two maps of one process, both in the queue; the first one has been
\* submitted once, or rerun once after the second was submitted.
InitAdmin ==
    \E cids \in {<<1>>, <<1, 3>>} :
        /\ objs = <<Map(map_id, cids, map_id, hashes),
                    Map("n", <<2>>, "n", other_hashes)>>
        /\ registry = [id \in Ids |-> IF id = map_id THEN 1 ELSE 2]
        /\ dirs = [id \in Ids |->
                      IF id = map_id THEN Dir(<<1>>, hashes, map_id, NoOutputs)
                      ELSE Dir(<<2>>, other_hashes, "n", NoOutputs)]
        /\ live = {[cluster |-> cids[Len(cids)], hash |-> h, dir |-> map_id] :
                      h \in hash_set}
                  \cup {[cluster |-> 2, hash |-> h, dir |-> "n"] :
                           h \in Range(other_hashes)}
        /\ trace = <<>>
        /\ ret = NoCall
        /\ cluster_ids = <<>>
        /\ is_removed = FALSE
        /\ MAPS = {}
        /\ dir_exists = FALSE
        /\ outputs = NoOutputs
        /\ last_itemdata = <<>>
        /\ now = 0
        /\ call = idle
        /\ gen = idle
        /\ yielded = <<>>
        /\ run = idle

NextAdmin ==
    \/ RunnerWriteTo
    \/ act_any
    \/ set_memory_any
    \/ set_disk_any

SpecAdmin == InitAdmin /\ [][NextAdmin]_vars

---------------------------------------------------------------------------
(* The component runner: run.py main(input_hash), one process on a worker.  *)
(* Its sandbox holds the callable (func) and the input bundle (<hash>.in);  *)
(* the scheduler maps its <hash>.out to the outputs directory of the map.   *)

\* What the callable of the map does when it is called with the input: it
\* returns a value or raises, and it may leave a file in the working
\* directory first.  An exception has a type, is or is not an instance of
\* Exception, and has the frames of its traceback below main.
Callables ==
    [output : {"a", "b"},
     exc : {[type |-> None, is_exception |-> FALSE, frames |-> <<>>]},
     scratch : BOOLEAN]
    \cup
    [output : {None},
     exc : {[type |-> "ValueError", is_exception |-> TRUE, frames |-> <<"f">>],
            [type |-> "ValueError", is_exception |-> TRUE,
             frames |-> <<"f", "g">>],
            [type |-> "SystemExit", is_exception |-> FALSE,
             frames |-> <<"f">>]},
     scratch : BOOLEAN]

\* A file that open(mode = 'wb') has created and cloudpickle.dump has not
\* finished: empty, or holding the start of the pickle.
Partial == [status |-> "PARTIAL"]

\* main, the body of its try statement in the working directory cwd:
\* load_func(), load_args_and_kwargs(input_hash), func(*args, **kwargs).
\* Path.open raises FileNotFoundError for a file that is not there.
main_try(cwd, func) ==
    IF "func" \notin cwd
    THEN [output |-> None, cwd |-> cwd,
          exc |-> [type |-> "FileNotFoundError", is_exception |-> TRUE,
                   frames |-> <<"load_func">>]]
    ELSE IF "in" \notin cwd
    THEN [output |-> None, cwd |-> cwd,
          exc |-> [type |-> "FileNotFoundError", is_exception |-> TRUE,
                   frames |-> <<"load_args_and_kwargs">>]]
    ELSE [output |-> func.output, exc |-> func.exc,
          cwd |-> IF func.scratch THEN cwd \cup {"scratch"} ELSE cwd]

\* skip_first(tb): the frames of traceback.walk_tb(tb), all of them, since
\* next(iterator) is commented out.
skip_first(tb) == tb

\* Mutant of main_result: the node and the working directory are looked at
\* when the error is handled.
main_result_late(h, tried, node_info, contents) ==
    IF tried.exc.type = None
    THEN [status |-> "OK", input_hash |-> h, output |-> tried.output]
    ELSE [status |-> "ERR", input_hash |-> h, exception |-> tried.exc.type,
          traceback |-> <<tried.exc.type>>,
          stack_summary |-> skip_first(<<"main">> \o tried.exc.frames),
          node_info |-> [host |-> "worker", time |-> now],
          working_dir_contents |-> tried.cwd]

\* main, the result of its try statement: ComponentOk when the body
\* returned, ComponentError in the handler of Exception.  The traceback of
\* the caught exception starts at the frame of main, where it was caught;
\* traceback.format_exception_only gives the line that starts with the name
\* of the type.
main_result(h, tried, node_info, contents) ==
    IF tried.exc.type = None
    THEN [status |-> "OK", input_hash |-> h, output |-> tried.output]
    ELSE [status |-> "ERR", input_hash |-> h, exception |-> tried.exc.type,
          traceback |-> <<tried.exc.type>>,
          stack_summary |-> skip_first(<<"main">> \o tried.exc.frames),
          node_info |-> node_info,
          working_dir_contents |-> contents]

\* main starts: get_node_info() and get_working_dir_contents().
main_begin ==
    /\ run.pc = "start"
    /\ run' = [run EXCEPT !.pc = "try",
                          !.node_info = [host |-> "worker", time |-> now],
                          !.contents = run.cwd]
    /\ UNCHANGED <<storeVars, ret, now, call, gen, yielded, trace, lifeVars>>

\* main runs its try statement.  An exception that is not an instance of
\* Exception passes the except clause and ends main.
main_call ==
    /\ run.pc = "try"
    /\ LET tried == main_try(run.cwd, run.func)
       IN  run' = IF tried.exc.type = None \/ tried.exc.is_exception
                  THEN [run EXCEPT
                           !.pc = "save",
                           !.cwd = tried.cwd,
                           !.result = main_result(run.input_hash, tried,
                                                  run.node_info, run.contents)]
                  ELSE [run EXCEPT !.pc = "raised", !.cwd = tried.cwd,
                                   !.exc = tried.exc.type]
    /\ UNCHANGED <<storeVars, ret, now, call, gen, yielded, trace, lifeVars>>

\* save_output: Path('<hash>.out').open(mode = 'wb') creates the file.
save_output_open ==
    /\ run.pc = "save"
    /\ dir_exists
    /\ outputs' = [outputs EXCEPT ![OutPath(run.input_hash)] = Partial]
    /\ run' = [run EXCEPT !.pc = "dump"]
    /\ UNCHANGED <<cluster_ids, is_removed, MAPS, dir_exists, live,
                   last_itemdata, ret, now, call, gen, yielded, trace,
                   lifeVars>>

\* save_output: cloudpickle.dump(output, file) has written the result; main
\* returns.
save_output_dump ==
    /\ run.pc = "dump"
    /\ dir_exists
    /\ outputs' = [outputs EXCEPT ![OutPath(run.input_hash)] = run.result]
    /\ run' = [run EXCEPT !.pc = "finished"]
    /\ UNCHANGED <<cluster_ids, is_removed, MAPS, dir_exists, live,
                   last_itemdata, ret, now, call, gen, yielded, trace,
                   lifeVars>>

\* A map whose component for one hash starts on a worker; the other
\* components have written their artifacts or not.
InitRunner ==
    /\ \E h \in hash_set :
           /\ run \in [pc : {"start"}, input_hash : {h}, func : Callables,
                       cwd : {{"func", "in"}, {"in"}, {"func"}},
                       node_info : {[host |-> None, time |-> 0]},
                       contents : {{}}, result : {NoFile}, exc : {None}]
           /\ outputs \in
                  {o \in [FileNames -> {NoFile, [status |-> "OK", cluster |-> 1]}] :
                      o[OutPath(h)] = NoFile}
    /\ cluster_ids = <<1>>
    /\ is_removed = FALSE
    /\ MAPS = {map_id}
    /\ dir_exists = TRUE
    /\ live = {}
    /\ last_itemdata = hashes
    /\ ret = NoCall
    /\ now = 0
    /\ call = idle
    /\ gen = idle
    /\ yielded = <<>>
    /\ trace = <<>>
    /\ objs = <<>>
    /\ registry = [id \in Ids |-> 0]
    /\ dirs = [id \in Ids |-> NoDir]

NextRunner ==
    \/ Tick
    \/ main_begin
    \/ main_call
    \/ save_output_open
    \/ save_output_dump
    \/ is_done

SpecRunner == InitRunner /\ [][NextRunner]_vars

---------------------------------------------------------------------------
(* Claims about remove. *)

\* The step is a call of remove(), on the instance ret'.self.
RemoveStep == ret'.op = "remove" /\ remove_call(ret'.self)

\* C12: a remove() that returns normally has issued, in this order, one
\* scheduler Remove action whose predicate names every cluster id of the
\* instance (those appended by reruns too), the deletion of the map
\* directory, the setting of _is_removed and the pop of the map id from the
\* registry; afterwards the directory does not exist and the registry has no
\* entry for the map id.
C12_RemoveOrder ==
    [][RemoveStep /\ ret'.exc = None =>
              LET o == ret'.self
                  id == objs[o].map_id
              IN  /\ trace' = <<act("Remove", Range(objs[o].cluster_ids)),
                                rmtree(id), set_is_removed(id), pop(id)>>
                  /\ dirs[id] # NoDir
                  /\ dirs'[id] = NoDir
                  /\ ~objs[o].is_removed
                  /\ objs'[o].is_removed
                  /\ registry[id] # 0
                  /\ registry'[id] = 0
                  /\ \A j \in live' : j \in live ]_vars

\* A map that was rerun has been removed: the action named both cluster ids.
C12_Witness ==
    /\ ret.op = "remove"
    /\ ret.exc = None
    /\ Len(objs[1].cluster_ids) = 2
    /\ trace[1] = act("Remove", {1, 2})
    /\ dirs[map_id] = NoDir
    /\ registry[map_id] = 0

\* C13: a remove() that raises and leaves the map directory in place (the
\* scheduler action failed, or it succeeded and the deletion failed) leaves
\* _is_removed false and the registry entry as it was, so that the guard lets
\* a second remove() through; and _is_removed becomes true only in a step
\* that leaves no directory, so that in every state a removed instance has
\* no directory.
C13_PartialRemove ==
    /\ [][\A o \in 1..Len(objs) :
             LET id == objs[o].map_id
             IN  /\ ( /\ RemoveStep
                      /\ ret'.self = o
                      /\ ~objs[o].is_removed
                      /\ ret'.exc # None
                      /\ dirs'[id] # NoDir )
                        => /\ ~objs'[o].is_removed
                           /\ registry'[id] = registry[id]
                           /\ registry'[id] = o
                           /\ \E out \in Map_remove(o, [objs |-> objs',
                                     registry |-> registry', dirs |-> dirs',
                                     live |-> live']) : out.exc = None
                 /\ (~objs[o].is_removed /\ objs'[o].is_removed)
                        => dirs'[id] = NoDir ]_vars
    /\ [](\A o \in 1..Len(objs) :
             objs[o].is_removed => dirs[objs[o].map_id] = NoDir)

\* The deletion failed after the scheduler action: the directory is still
\* there without its files, the instance is not removed and is registered.
C13_Witness ==
    /\ ret.op = "remove"
    /\ ret.exc = "OSError"
    /\ trace = <<act("Remove", {1}), rmtree(map_id)>>
    /\ dirs[map_id] = Gutted
    /\ ~objs[1].is_removed
    /\ registry[map_id] = 1

---------------------------------------------------------------------------
(* Claims about rename and recover. *)

\* The step is a call of rename(ret'.arg, ret'.force) on the instance
\* ret'.self.
RenameStep ==
    ret'.op = "rename" /\ rename_call(ret'.self, ret'.arg, ret'.force)

\* The instance o lacks the artifact of one of its hashes.
Incomplete(o) ==
    /\ dirs[objs[o].map_id] # NoDir
    /\ \E h \in Range(objs[o].hashes) :
           dirs[objs[o].map_id].outputs[OutPath(h)] = NoFile

\* C14: rename(new_id, force_overwrite) on a live instance raises
\* CannotRenameMap when new_id is its own id or when one of its hashes has no
\* artifact, whatever force_overwrite is; the call then changes no instance,
\* no registry entry and no directory (its own and that of a map at new_id),
\* removes nothing from the queue, and issues no call but the status query
\* of the message.
C14_RenameRefused ==
    [][( /\ RenameStep
         /\ ~objs[ret'.self].is_removed
         /\ (ret'.arg = objs[ret'.self].map_id \/ Incomplete(ret'.self)) )
          => /\ ret'.exc = "CannotRenameMap"
             /\ objs' = objs
             /\ registry' = registry
             /\ dirs' = dirs
             /\ live' = live
             /\ \A i \in 1..Len(trace') : trace'[i].ev = "xquery" ]_vars

\* An incomplete map was renamed with force_overwrite to the id of another
\* map of the process: refused, and the other map is as it was.
C14_Witness ==
    /\ ret.op = "rename"
    /\ ret.exc = "CannotRenameMap"
    /\ ret.self = 1
    /\ ret.arg = "n"
    /\ ret.force
    /\ Incomplete(1)
    /\ registry[map_id] = 1
    /\ registry["n"] = 2
    /\ dirs["n"] # NoDir
    /\ ~objs[2].is_removed

\* A map exists at id: its directory is there, and it has an instance in the
\* registry or the files to recover one.
MapAt(id) ==
    /\ dirs[id] # NoDir
    /\ registry[id] # 0 \/ RequiredFiles \subseteq dirs[id].files

\* The cluster ids of the map at id, as its instance or its directory has them.
ClustersAt(id) ==
    IF registry[id] # 0 THEN Range(objs[registry[id]].cluster_ids)
    ELSE Range(dirs[id].cluster_ids)

\* The places of an event in a trace.
Places(tr, e) == {i \in 1..Len(tr) : tr[i] = e}

\* C15: for a live, complete instance and a new_id that is not its id and at
\* which a map exists: rename without force_overwrite raises CannotRenameMap
\* and changes neither map; rename with force_overwrite first removes the map
\* at new_id, so the scheduler Remove action for its clusters is always
\* issued, and the copy to new_id, when it is reached, comes after that
\* action, the deletion of the directory of new_id and the pop of new_id
\* from the registry.
C15_RenameOverExisting ==
    [][( /\ ret'.op = "rename"
         /\ ~objs[ret'.self].is_removed
         /\ dirs[objs[ret'.self].map_id] # NoDir
         /\ ~Incomplete(ret'.self)
         /\ ret'.arg # objs[ret'.self].map_id
         /\ MapAt(ret'.arg)
         /\ RenameStep )
          => LET o == ret'.self
                 new == ret'.arg
                 gone == act("Remove", ClustersAt(new))
                 copy == copytree(objs[o].map_id, new)
             IN  /\ ~ret'.force
                       => /\ ret'.exc = "CannotRenameMap"
                          /\ objs' = objs
                          /\ registry' = registry
                          /\ dirs' = dirs
                          /\ live' = live
                 /\ ret'.force
                       => /\ Places(trace', gone) # {}
                          /\ \A c \in Places(trace', copy) :
                                \E a \in 1..c, r \in 1..c, p \in 1..c :
                                    /\ a < r
                                    /\ r < p
                                    /\ p < c
                                    /\ trace'[a] = gone
                                    /\ trace'[r] = rmtree(new)
                                    /\ trace'[p] = pop(new)
                          /\ ret'.exc = None
                                => /\ Places(trace', copy) # {}
                                   /\ LET e == IF registry[new] # 0
                                               THEN registry[new]
                                               ELSE Len(objs) + 1
                                      IN  /\ e # ret'.val
                                          /\ objs'[e].map_id = new
                                          /\ objs'[e].is_removed
                                          /\ Range(objs'[e].cluster_ids)
                                                 = ClustersAt(new) ]_vars

\* A complete map was renamed with force_overwrite to the id of a map of the
\* process, which is removed; the new instance has that id now.
C15_Witness ==
    /\ ret.op = "rename"
    /\ ret.exc = None
    /\ ret.force
    /\ ret.arg = "n"
    /\ Len(objs) = 3
    /\ objs[2].is_removed
    /\ registry["n"] = 3
    /\ dirs["n"].hashes = hashes
    /\ Places(trace, rmtree("n")) # {}

\* C16: a rename(new_id) that returns normally returns an instance that is
\* registered under new_id, is live, has the hashes and the cluster ids of
\* the original and is complete in the new directory (every hash has its
\* artifact there), whose directory holds the rewritten submit template; the
\* original instance is removed, its directory is gone and the registry has
\* no entry for its id, so that the id can be used again.
C16_Renamed ==
    [][RenameStep /\ ret'.exc = None =>
              LET o == ret'.self
                  new == ret'.arg
                  old == objs[o].map_id
                  k == ret'.val
              IN  /\ new # old
                  /\ k \notin 1..Len(objs)
                  /\ registry'[new] = k
                  /\ objs'[k].map_id = new
                  /\ ~objs'[k].is_removed
                  /\ objs'[k].hashes = objs[o].hashes
                  /\ objs'[k].cluster_ids = objs[o].cluster_ids
                  /\ dirs'[new] # NoDir
                  /\ \A h \in Range(objs'[k].hashes) :
                        dirs'[new].outputs[OutPath(h)] # NoFile
                  /\ dirs'[new].outputs = dirs[old].outputs
                  /\ dirs'[new].submit = new
                  /\ objs'[o].is_removed
                  /\ dirs'[old] = NoDir
                  /\ registry'[old] = 0 ]_vars

\* The first map was renamed to a free id: the second instance is the
\* renamed map, with both artifacts in its directory.
C16_Witness ==
    /\ ret.op = "rename"
    /\ ret.exc = None
    /\ ~ret.force
    /\ ret.val = 2
    /\ objs[1].is_removed
    /\ objs[2] = Map("n", <<1>>, "n", hashes)
    /\ registry[map_id] = 0
    /\ registry["n"] = 2
    /\ dirs[map_id] = NoDir
    /\ \A h \in hash_set : dirs["n"].outputs[OutPath(h)] # NoFile

\* The step is a call of recover(ret'.arg).
RecoverStep == ret'.op = "recover" /\ recover_call(ret'.arg)

\* C17: recover(map_id) returns the registered instance, reading nothing
\* and changing nothing, when the registry has an entry for map_id;
\* otherwise it builds an instance from the cluster ids, the hashes and the
\* submit template of the directory and registers it under map_id, or, when
\* the directory or one of the three files is not there, raises
\* MapIdNotFound and registers nothing.  After a remove() of the map of
\* map_id that returned normally, recover(map_id) raises MapIdNotFound.
C17_Recover ==
    [][RecoverStep =>
          LET id == ret'.arg
              k == Len(objs) + 1
          IN  /\ dirs' = dirs
              /\ live' = live
              /\ registry[id] # 0
                    => /\ ret'.exc = None
                       /\ ret'.val = registry[id]
                       /\ trace' = <<>>
                       /\ objs' = objs
                       /\ registry' = registry
              /\ (registry[id] = 0 /\ dirs[id] # NoDir
                     /\ RequiredFiles \subseteq dirs[id].files)
                    => /\ ret'.exc = None
                       /\ ret'.val = k
                       /\ objs' = Append(objs, Map(id, dirs[id].cluster_ids,
                                                   dirs[id].submit,
                                                   dirs[id].hashes))
                       /\ registry' = [registry EXCEPT ![id] = k]
              /\ (registry[id] = 0 /\ (dirs[id] = NoDir
                     \/ ~(RequiredFiles \subseteq dirs[id].files)))
                    => /\ ret'.exc = "MapIdNotFound"
                       /\ objs' = objs
                       /\ registry' = registry
              /\ (ret.op = "remove" /\ ret.exc = None
                     /\ objs[ret.self].map_id = id)
                    => ret'.exc = "MapIdNotFound" ]_vars

\* The first map was removed by remove() (no other instance was ever made),
\* and recover of its id raised MapIdNotFound.
C17_Witness ==
    /\ ret.op = "recover"
    /\ ret.exc = "MapIdNotFound"
    /\ ret.arg = map_id
    /\ trace = <<load(map_id)>>
    /\ Len(objs) = 1
    /\ objs[1].is_removed
    /\ dirs[map_id] = NoDir
    /\ registry[map_id] = 0

---------------------------------------------------------------------------
(* Claims about the scheduler queries and actions. *)

\* C18: when the map has no cluster id, status_counts() and hold_reasons()
\* get no scheduler record and raise nothing, and no query is sent to the
\* scheduler.
C18_EmptyQuery ==
    ( /\ ret.op \in {"status_counts", "hold_reasons"}
      /\ ret.exc # "MapWasRemoved"
      /\ cluster_ids = <<>> )
    => /\ ret.exc = None
       /\ ret.query = <<>>
       /\ trace = <<>>

\* The step is a call of hold, release, pause, resume or vacate.
ActStep == ret'.op \in DOMAIN JobAction /\ act_call(ret'.self, ret'.op)

\* The step is a call of set_memory or set_disk.
EditStep ==
    \/ ret'.op = "set_memory" /\ set_memory_call(ret'.self, ret'.arg)
    \/ ret'.op = "set_disk" /\ set_disk_call(ret'.self, ret'.arg)

\* C19: on a live instance, hold, release, pause, resume and vacate each
\* issue one scheduler action and nothing else, Hold, Release, Suspend,
\* Continue and Vacate in that order of the methods, whose predicate names
\* the cluster ids of the instance and no other; set_memory and set_disk
\* each issue one scheduler edit, of RequestMemory and RequestDisk, with
\* the same scope.  None changes an instance (its cluster ids, hashes,
\* template, flag), the registry or a map directory (template, artifacts).
C19_ActionsAndEdits ==
    [][ /\ (ActStep /\ ~objs[ret'.self].is_removed)
            => /\ Len(trace') = 1
               /\ trace'[1] =
                    act(CASE ret'.op = "hold" -> "Hold"
                          [] ret'.op = "release" -> "Release"
                          [] ret'.op = "pause" -> "Suspend"
                          [] ret'.op = "resume" -> "Continue"
                          [] ret'.op = "vacate" -> "Vacate",
                        Range(objs[ret'.self].cluster_ids))
        /\ (EditStep /\ ~objs[ret'.self].is_removed)
            => /\ Len(trace') = 1
               /\ trace'[1].ev = "edit"
               /\ trace'[1].attr = (IF ret'.op = "set_memory"
                                    THEN "RequestMemory" ELSE "RequestDisk")
               /\ trace'[1].scope = Range(objs[ret'.self].cluster_ids)
        /\ (ActStep \/ EditStep)
            => /\ objs' = objs
               /\ registry' = registry
               /\ dirs' = dirs
               /\ live' = live ]_vars

\* The first map was rerun while a second map is in the queue, and was then
\* paused: the Suspend action names its two clusters and not the third.
C19_Witness ==
    /\ ret.op = "pause"
    /\ ret.exc = None
    /\ ret.self = 1
    /\ objs[1].cluster_ids = <<1, 3>>
    /\ trace = <<act("Suspend", {1, 3})>>
    /\ \E j \in live : j.cluster = 2

\* C20: set_disk with a number n asks for n gigabytes and set_memory with a
\* number n asks for n megabytes; a string is handed to the scheduler edit as
\* it is, by both.
C20_Units ==
    ( /\ ret.op \in {"set_memory", "set_disk"}
      /\ ret.exc # "MapWasRemoved" )
    => trace[1].value =
          IF ret.arg.kind = "number"
          THEN Text(ret.arg.num, IF ret.op = "set_disk" THEN "GB" ELSE "MB")
          ELSE Text(ret.arg.num, ret.arg.unit)

---------------------------------------------------------------------------
(* Claims about the component runner. *)

\* main has ended: it returned, or an exception left it.
RunEnded == run.pc \in {"finished", "raised"}

\* C21: when one run of main for hash h has ended, <h>.out holds a result
\* (Ok or Error), whether the callable returned, raised any error, or the
\* callable or the input could not be loaded.
C21_OneArtifact ==
    RunEnded => outputs[OutPath(run.input_hash)].status \in {"OK", "ERR"}

C23_WrapperElided ==
    run.pc \in {"save", "dump", "finished"} /\ run.result.status = "ERR"
        => run.result.stack_summary[1] # "main"


\* C26: while the artifact of hash h is being written (created, not yet
\* holding the whole result), h is not among the completed hashes and
\* is_done has not answered True.
C26_NoPartialArtifact ==
    \A h \in hash_set :
        outputs[OutPath(h)] = Partial
            => /\ h \notin Range(_completed_hashes)
               /\ ~(ret.op = "is_done" /\ ret.exc = None /\ ret.val)


---------------------------------------------------------------------------
(* Claims about results, waiting and reruns. *)

\* C24: is_done answers True exactly when every hash of the map has a result
\* artifact, Ok or Error; a hash with an Error artifact is completed; and
\* get on its index returns the Error result itself and raises nothing.
C24_ErrorsAreResults ==
    /\ [][is_done /\ ~is_removed
              => /\ ret'.exc = None
                 /\ ret'.val = (\A h \in hash_set :
                                   outputs[OutPath(h)].status \in {"OK", "ERR"})]_vars
    /\ [](\A h \in hash_set :
              outputs[OutPath(h)].status = "ERR"
                  => /\ h \in Range(_completed_hashes)
                     /\ h \notin Range(_missing_hashes))
    /\ [][\A i \in 1..NumHashes :
              ( /\ get_check
                /\ call.item = i
                /\ outputs[OutPath(hashes[i])].status = "ERR" )
              => /\ ret'.exc = None
                 /\ ret'.val = outputs[OutPath(hashes[i])]
                 /\ ret'.val.status = "ERR"]_vars

\* Every component has ended, one of them with an Error result, and is_done
\* answered True.
C24_Witness ==
    /\ ret.op = "is_done"
    /\ ret.exc = None
    /\ ret.val
    /\ live = {}
    /\ \E h \in hash_set : outputs[OutPath(h)].status = "ERR"


\* Every hash of the map has its artifact.
AllArtifacts == WithArtifact = hash_set

\* What was started without a timeout has come to its end: wait has
\* returned, the generator has ended without an exception after it yielded a
\* result for each of the N hashes, iter in input order.
LiveEnded ==
    /\ call.pc = "idle"
    /\ gen.pc \in {"idle", "ended"}
    /\ gen.pc = "ended"
          => /\ gen.exc = None
             /\ Len(Yields) = NumHashes
             /\ YieldedHashes = hash_set
             /\ gen.op \in InOrder
                   => \A i \in 1..NumHashes : Yields[i].out = hashes[i]

\* A hash that has no artifact and no execution left to write one.
Lost(h) == ~Exists(OutPath(h)) /\ ~\E j \in live : j.hash = h

\* C25: with no artifact ever deleted, once every hash has its artifact the
\* wait(timeout = None), iter(timeout = None) or iter_as_available(timeout =
\* None) in progress comes to its end, with all N results yielded; wait
\* returns only when every hash has its artifact, so it never returns while
\* a hash never gets one; and a hash whose runner crashed before it wrote
\* stays missing, and the wait in progress stays blocked, as long as nothing
\* is rerun.
C25_Liveness ==
    /\ AllArtifacts ~> LiveEnded
    /\ [](ret.op = "wait" => ret.exc = None /\ AllArtifacts)
    /\ [][\A h \in hash_set : Lost(h) => Lost(h)']_vars
    /\ []((\E h \in hash_set : Lost(h)) /\ gen.pc = "idle"
              => call.pc \in {"check", "sleeping"} /\ ret = NoCall)

\* wait(timeout = None) slept at least once while the runners were at work,
\* and returned when every artifact was there.
C25_Witness ==
    /\ ret.op = "wait"
    /\ ret.exc = None
    /\ ret.slept
    /\ AllArtifacts


---------------------------------------------------------------------------
(* Claims about the order of rename and rerun, and about restarts. *)

\* C27: in every call of rename, whatever is done to remove the old map (the
\* deletion of its directory, the setting of its flag, the pop of its
\* registry entry, and the scheduler action right before them) comes after
\* the copy to the new path and after the save of the rewritten submit
\* template; and a call that ends with a failure of the copy or of the save
\* leaves the directory, the registry entry and the instance (its is_removed
\* flag) of the old map as they were.
C27_CopyBeforeRemove ==
    [][RenameStep =>
          LET o == ret'.self
              new == ret'.arg
              old == objs[o].map_id
              tr == trace'
              copy == copytree(old, new)
              save == save_submit(new)
          IN  /\ \A r \in 1..Len(tr) :
                    tr[r] \in {rmtree(old), set_is_removed(old), pop(old)}
                        => \E c \in 1..r, s \in 1..r :
                              /\ c < s
                              /\ s < r
                              /\ tr[c] = copy
                              /\ tr[s] = save
                              /\ tr[s + 1] = act("Remove",
                                                 Range(objs[o].cluster_ids))
              /\ ( /\ ret'.exc # None
                   /\ tr # <<>>
                   /\ tr[Len(tr)] \in {copy, save} )
                    => /\ objs'[o] = objs[o]
                       /\ ~objs'[o].is_removed
                       /\ registry'[old] = registry[old]
                       /\ dirs'[old] = dirs[old] ]_vars

\* A rename copied the directory and failed to save the submit template: the
\* old map is whole and registered, and the new directory is there.
C27_Witness ==
    /\ ret.op = "rename"
    /\ ret.exc = "OSError"
    /\ trace # <<>>
    /\ trace[Len(trace)] = save_submit(ret.arg)
    /\ ~objs[ret.self].is_removed
    /\ registry[objs[ret.self].map_id] = ret.self
    /\ RequiredFiles \subseteq dirs[objs[ret.self].map_id].files
    /\ dirs[ret.arg] # NoDir


\* A step of rerun() or rerun_incomplete() on the live map.
RerunStep ==
    /\ rerun \/ rerun_incomplete
    /\ ~is_removed
    /\ ret'.op \in {"rerun", "rerun_incomplete"}

\* C28: every rerun() and rerun_incomplete() issues the scheduler Remove
\* action for all the batch ids the map has before it submits, and submits
\* once; when the submit succeeded the new batch id, and nothing else, has
\* been appended to batch_ids, and the new executions are those of that id;
\* when the submit failed batch_ids is as it was.
C28_CancelBeforeResubmit ==
    [][RerunStep =>
          /\ \A s \in Places(trace', execute_submit(last_itemdata')) :
                \E a \in 1..s :
                    /\ a < s
                    /\ trace'[a] = act("Remove", Range(cluster_ids))
          /\ Cardinality({i \in 1..Len(trace') :
                             trace'[i].ev = "execute_submit"}) = 1
          /\ ret'.exc = None
                => /\ Len(cluster_ids') = Len(cluster_ids) + 1
                   /\ SubSeq(cluster_ids', 1, Len(cluster_ids)) = cluster_ids
                   /\ cluster_ids'[Len(cluster_ids')] \notin Range(cluster_ids)
                   /\ \A j \in live' \ live :
                         j.cluster = cluster_ids'[Len(cluster_ids')]
          /\ ret'.exc # None
                => /\ cluster_ids' = cluster_ids
                   /\ live' \subseteq live ]_vars

\* A rerun_incomplete removed the executions of the first batch from the
\* queue and its submit was refused: the map has the batch id it had.
C28_Witness ==
    /\ ret.op = "rerun_incomplete"
    /\ ret.exc = "SubmitError"
    /\ cluster_ids = <<1>>
    /\ Len(trace) = 2
    /\ trace[1] = act("Remove", {1})
    /\ trace[2] = execute_submit(last_itemdata)
    /\ last_itemdata # <<>>


\* C29: the cluster_ids file of a map directory holds the batch ids of the
\* live, registered instance of the map; and an instance that recover
\* returns has the batch id of every execution that was submitted for its
\* map, also when an earlier process did the rerun.
C29_DurableBatchIds ==
    /\ \A o \in 1..Len(objs) :
          ( /\ ~objs[o].is_removed
            /\ registry[objs[o].map_id] = o
            /\ dirs[objs[o].map_id] # NoDir
            /\ RequiredFiles \subseteq dirs[objs[o].map_id].files )
          => dirs[objs[o].map_id].cluster_ids = objs[o].cluster_ids
    /\ ret.op = "recover" /\ ret.exc = None
          => \A j \in live :
                j.dir = objs[ret.val].map_id
                    => j.cluster \in Range(objs[ret.val].cluster_ids)


\* Every registry entry maps its key to a live instance with that map_id.
RegistryKeyed ==
    \A id \in Ids :
        registry[id] # 0
            => /\ objs[registry[id]].map_id = id
               /\ ~objs[registry[id]].is_removed

\* C30: every registry entry maps its key to a live instance with that
\* map_id; and a call of remove on one instance leaves the registry entry of
\* every other instance that is live after the call as it was.
C30_Registry ==
    /\ []RegistryKeyed
    /\ [][RemoveStep =>
             \A id \in Ids :
                 ( /\ registry[id] # 0
                   /\ registry[id] # ret'.self
                   /\ ~objs'[registry[id]].is_removed )
                 => registry'[id] = registry[id]]_vars

---------------------------------------------------------------------------
(* Claims about the two views of completion. *)

\* C31: for every content of the outputs directory the views of completion
\* agree: a hash is in _completed_hashes if and only if its file '<h>.out'
\* exists; is_done and wait report completion, and status_counts counts a
\* hash as completed, only by the '<h>.out' files; and map[i] fails with
\* OutputNotFound if and only if the hash of i is not completed.
C31_CompletionViews ==
    /\ \A h \in hash_set :
          h \in Range(_completed_hashes) <=> Exists(OutPath(h))
    /\ ret.op = "is_done" /\ ret.exc = None
          => ret.val = (\A h \in hash_set : Exists(OutPath(h)))
    /\ ret.op = "wait" /\ ret.exc = None
          => \A h \in hash_set : Exists(OutPath(h))
    /\ ret.op = "status_counts" /\ ret.exc = None
          => ret.val[COMPLETED]
                 = Cardinality({h \in hash_set : Exists(OutPath(h))})
    /\ ret.op = "get" /\ ret.via = "__getitem__"
          => ( ret.exc = "OutputNotFound"
                  <=> hashes[ret.item] \notin Range(_completed_hashes) )

===========================================================================
